---- MODULE Spec2Model ----
(***************************************************************************)
(* Model of the RBAC authorization core: the permission catalog, the role  *)
(* registry with its grants, the user-role assignment store, and the       *)
(* evaluation engine (checkPermission, checkPermissions, hasRole,          *)
(* getEffectivePermissions) of lib/domains/permission.                     *)
(***************************************************************************)
EXTENDS Naturals, Sequences, FiniteSets, TLC

\* ------------------------------------------------------------------------
\* Bounds of the model
\* ------------------------------------------------------------------------
\* the number of store mutations explored from the initial store
MaxOps == 2
\* the clock runs over 0..MaxTime; expiry timestamps are drawn from 1..MaxTime
MaxTime == 1
\* the largest set of permissions held that pairs of evaluations compare
MaxHeld == 4

\* ------------------------------------------------------------------------
\* Values
\* ------------------------------------------------------------------------
\* a NULL column of the store
Null == "null"
\* an optional argument the caller left out
Undef == "undefined"
\* a date column or argument holds <<t>>, or <<>> when it is NULL or left out
NoDate == <<>>
Date(t) == <<t>>

Users == {"u1", "u2"}
\* the users that receive assignments; the other one only owns resources
AssignUsers == {"u1"}
Depts == {"d1", "d2"}
RoleIds == {"r1", "r2"}
PermIds == {"p1", "p2", "p3", "p4", "p5", "p6"}
\* the administrators whose calls run concurrently with the calls of others
Callers == {"c1", "c2"}

\* no lower-casing at all
toLowerCase_Identity ==
  [s \in {"USER", "EXPENSE_CLAIM", "READ", "DELETE", "APPROVE", "MANAGE"} |-> s]

\* String.prototype.toLowerCase on the names of the two enums
toLowerCase ==
  [s \in {"USER", "EXPENSE_CLAIM", "READ", "DELETE", "APPROVE", "MANAGE"} |->
     CASE s = "USER" -> "user"
       [] s = "EXPENSE_CLAIM" -> "expense_claim"
       [] s = "READ" -> "read"
       [] s = "DELETE" -> "delete"
       [] s = "APPROVE" -> "approve"
       [] s = "MANAGE" -> "manage"]

\* the (resource, action) pairs that callers ask about
CheckPairs == {<<"USER", "READ">>, <<"USER", "DELETE">>, <<"EXPENSE_CLAIM", "APPROVE">>}

\* the priorities the wrong way round
scopePriority_Inverted == [s \in {"ALL", "DEPARTMENT", "OWN"} |->
                    CASE s = "ALL" -> 1 [] s = "DEPARTMENT" -> 2 [] s = "OWN" -> 3]

\* scopePriority of checkPermission
scopePriority == [s \in {"ALL", "DEPARTMENT", "OWN"} |->
                    CASE s = "ALL" -> 3 [] s = "DEPARTMENT" -> 2 [] s = "OWN" -> 1]

\* The permission catalog: five seeded system permissions (user:read,
\* user:read:all, user:read:department, expense-claim:approve, user:manage)
\* and one permission an administrator created (manage the own user record).
DEFAULT_PERMISSIONS ==
  [p \in PermIds |->
     CASE p = "p1" -> [id |-> "p1", code |-> "user:read", resource |-> "USER",
                       action |-> "READ", scope |-> "OWN", isActive |-> TRUE, isSystem |-> TRUE]
       [] p = "p2" -> [id |-> "p2", code |-> "user:read:all", resource |-> "USER",
                       action |-> "READ", scope |-> "ALL", isActive |-> TRUE, isSystem |-> TRUE]
       [] p = "p3" -> [id |-> "p3", code |-> "expense-claim:approve", resource |-> "EXPENSE_CLAIM",
                       action |-> "APPROVE", scope |-> "DEPARTMENT", isActive |-> TRUE, isSystem |-> TRUE]
       [] p = "p4" -> [id |-> "p4", code |-> "user:manage:own", resource |-> "USER",
                       action |-> "MANAGE", scope |-> "OWN", isActive |-> TRUE, isSystem |-> FALSE]
       [] p = "p5" -> [id |-> "p5", code |-> "user:manage", resource |-> "USER",
                       action |-> "MANAGE", scope |-> "ALL", isActive |-> TRUE, isSystem |-> TRUE]
       [] p = "p6" -> [id |-> "p6", code |-> "user:read:department", resource |-> "USER",
                       action |-> "READ", scope |-> "DEPARTMENT", isActive |-> TRUE, isSystem |-> TRUE]]

\* The roles: the seeded system role employee and a role an administrator created.
DEFAULT_ROLES ==
  [r \in RoleIds |->
     CASE r = "r1" -> [id |-> "r1", code |-> "employee", isActive |-> TRUE, isSystem |-> TRUE,
                       parentRoleId |-> Null]
       [] r = "r2" -> [id |-> "r2", code |-> "approver", isActive |-> TRUE, isSystem |-> FALSE,
                       parentRoleId |-> Null]]

\* The departments the store starts with: two roots. u2 is a member of d2
\* (users.department_id), u1 of no department.
DEFAULT_DEPARTMENTS ==
  [d \in Depts |-> [id |-> d, name |-> "name of " \o d, parentId |-> Null]]
userDepartmentId == [u \in Users |-> IF u = "u2" THEN "d2" ELSE Null]

\* The users the store starts with: u1, signed in before through Keycloak
\* account k1 and active. The Keycloak account k2 has no user yet; its user
\* will be u2.
UserStatus == {"ACTIVE", "INACTIVE", "SUSPENDED", "PENDING"}
KeycloakIds == {"k1", "k2"}
DEFAULT_USERS ==
  [u \in {"u1"} |-> [id |-> u, keycloakId |-> "k1", status |-> "ACTIVE",
                      lastLoginAt |-> NoDate]]

\* The grants the store starts with: employee reads the own user record; the
\* approver role reads every user, approves the expense claims of a department
\* and manages the own user record.
ROLE_PERMISSIONS == {<<"r1", "p1">>, <<"r2", "p2">>, <<"r2", "p3">>, <<"r2", "p4">>}

\* ------------------------------------------------------------------------
\* State
\* ------------------------------------------------------------------------
VARIABLES
  permissions,      \* table permissions: id -> row
  roles,            \* table roles: id -> row
  rolePermissions,  \* table role_permissions: set of rows
  userRoles,        \* table user_roles: set of rows
  departments,      \* table departments: id -> row
  users,            \* table users: id -> row
  nextId,           \* the next generated primary key (cuid)
  now,              \* the clock (new Date())
  ops,              \* store mutations made so far
  ret,              \* the last call made and what it returned
  calls             \* the calls of concurrent callers that are under way

vars == <<permissions, roles, rolePermissions, userRoles, departments, users, nextId, now,
          ops, ret, calls>>
store == <<permissions, roles, rolePermissions, userRoles, departments, users, nextId>>

\* the rows assignDefaultRolePermissions creates, one for each pair of
\* ROLE_PERMISSIONS, granted by nobody
assignDefaultRolePermissions ==
  LET pairs == CHOOSE l \in [1..Cardinality(ROLE_PERMISSIONS) -> ROLE_PERMISSIONS] :
                 \A i, j \in DOMAIN l : l[i] = l[j] => i = j
  IN {[id |-> i, roleId |-> pairs[i][1], permissionId |-> pairs[i][2],
       grantedById |-> Null] : i \in DOMAIN pairs}

Init ==
  /\ permissions = DEFAULT_PERMISSIONS
  /\ roles = DEFAULT_ROLES
  /\ departments = DEFAULT_DEPARTMENTS
  /\ users = DEFAULT_USERS
  /\ rolePermissions = assignDefaultRolePermissions
  /\ userRoles = {}
  /\ nextId = Cardinality(ROLE_PERMISSIONS) + 1
  /\ now = 0
  /\ ops = 0
  /\ ret = [op |-> "none"]
  /\ calls = [c \in Callers |-> [pc |-> "idle"]]

\* ------------------------------------------------------------------------
\* Repository layer (queries)
\* ------------------------------------------------------------------------
\* all enumerations of a finite set: the order in which a findMany without
\* orderBy returns its rows
RECURSIVE Orderings(_)
Orderings(S) ==
  IF S = {} THEN {<<>>}
  ELSE UNION {{<<x>> \o t : t \in Orderings(S \ {x})} : x \in S}

\* gte in place of gt
NotExpired_Inclusive(ur) ==
  ur.expiresAt = NoDate \/ (ur.expiresAt # NoDate /\ ur.expiresAt[1] >= now)

\* OR: [{ expiresAt: null }, { expiresAt: { gt: now } }]
NotExpired(ur) == ur.expiresAt = NoDate \/ (ur.expiresAt # NoDate /\ ur.expiresAt[1] > now)

\* the where clause without the department filter
whereUserRole_AnyDepartment(ur, userId, departmentId) ==
  /\ ur.userId = userId
  /\ ur.isActive
  /\ ur.roleId \in DOMAIN roles /\ roles[ur.roleId].isActive
  /\ NotExpired(ur)

\* without a departmentId only the global assignments
whereUserRole_GlobalWithoutDepartment(ur, userId, departmentId) ==
  /\ ur.userId = userId
  /\ ur.isActive
  /\ ur.roleId \in DOMAIN roles /\ roles[ur.roleId].isActive
  /\ NotExpired(ur)
  /\ ur.departmentId \in {Null, departmentId}

\* the where clause of getAllUserPermissions
whereUserRole(ur, userId, departmentId) ==
  /\ ur.userId = userId
  /\ ur.isActive
  /\ ur.roleId \in DOMAIN roles /\ roles[ur.roleId].isActive
  /\ IF departmentId # Undef
       THEN \/ ur.departmentId = Null /\ ur.expiresAt = NoDate
            \/ ur.departmentId = Null /\ ur.expiresAt # NoDate /\ ur.expiresAt[1] > now
            \/ ur.departmentId = departmentId /\ ur.expiresAt = NoDate
            \/ ur.departmentId = departmentId /\ ur.expiresAt # NoDate /\ ur.expiresAt[1] > now
       ELSE NotExpired(ur)

\* the relation role.rolePermissions -> permission: a grant row joins the two
Granted(roleId, permissionId) ==
  \E rp \in rolePermissions : rp.roleId = roleId /\ rp.permissionId = permissionId

\* rolePermissions of a role without the filter on permission.isActive
activeRolePermissions_InactiveIncluded(roleId) ==
  {p \in DOMAIN permissions : Granted(roleId, p)}

\* rolePermissions of a role, where permission.isActive
activeRolePermissions(roleId) ==
  {p \in DOMAIN permissions : Granted(roleId, p) /\ permissions[p].isActive}

\* userRoleRepository.getAllUserPermissions: the ids of the permission rows
\* it returns (the Map keyed by permission id holds each once)
getAllUserPermissions(userId, departmentId) ==
  UNION {activeRolePermissions(ur.roleId) :
           ur \in {x \in userRoles : whereUserRole(x, userId, departmentId)}}

\* userRoleRepository.hasRole. The object literal of the where clause names
\* the key OR twice when departmentId is given: the spread one replaces the
\* expiry one.
hasRole(userId, roleCode, departmentId) ==
  Cardinality({ur \in userRoles :
     /\ ur.userId = userId
     /\ ur.roleId \in DOMAIN roles
     /\ roles[ur.roleId].code = roleCode /\ roles[ur.roleId].isActive
     /\ ur.isActive
     /\ IF departmentId # Undef
          THEN ur.departmentId = departmentId \/ ur.departmentId = Null
          ELSE NotExpired(ur)}) > 0

\* userRoleRepository.getUserRoles: the rows it returns
getUserRoles(userId) ==
  {ur \in userRoles :
     /\ ur.userId = userId /\ ur.isActive /\ NotExpired(ur)
     /\ ur.roleId \in DOMAIN roles /\ roles[ur.roleId].isActive}

\* ------------------------------------------------------------------------
\* Evaluation engine
\* ------------------------------------------------------------------------
\* Array.prototype.sort with (a, b) => scopePriority[b.scope] - scopePriority[a.scope]:
\* a stable sort, descending by priority
RECURSIVE insertByScope(_, _)
insertByScope(sorted, x) ==
  IF sorted = <<>> THEN <<x>>
  ELSE IF scopePriority[Head(sorted).scope] >= scopePriority[x.scope]
       THEN <<Head(sorted)>> \o insertByScope(Tail(sorted), x)
       ELSE <<x>> \o sorted

\* the exact matches as they were enumerated, not sorted
sortByScope_AsEnumerated(list) == list

RECURSIVE sortByScope(_)
sortByScope(list) ==
  IF list = <<>> THEN <<>>
  ELSE insertByScope(sortByScope(SubSeq(list, 1, Len(list) - 1)), list[Len(list)])

\* the action is not compared
isExact_AnyAction(p, resource, action) == p.resource = resource

isExact(p, resource, action) == p.resource = resource /\ p.action = action
\* only a MANAGE permission of scope ALL counts
isManage_OnlyAll(p, resource) ==
  p.resource = resource /\ p.action = "MANAGE" /\ p.scope = "ALL"

isManage(p, resource) == p.resource = resource /\ p.action = "MANAGE"

\* the OWN check without the test that a targetOwnerId was given
scopeDenied_OwnerNotTested(bestPermission, userId, targetOwnerId) ==
  bestPermission.scope = "OWN" /\ targetOwnerId # userId

\* the OWN check of checkPermission
scopeDenied(bestPermission, userId, targetOwnerId) ==
  bestPermission.scope = "OWN" /\ targetOwnerId # Undef /\ targetOwnerId # userId

\* authorizationService.checkPermission, on the list getAllUserPermissions returned
checkPermission(request, permissionList) ==
  LET permissionCode == toLowerCase[request.resource] \o ":" \o toLowerCase[request.action]
      matchingPermissions ==
        SelectSeq(permissionList, LAMBDA p : isExact(p, request.resource, request.action))
      manageList == SelectSeq(permissionList, LAMBDA p : isManage(p, request.resource))
  IN IF Len(matchingPermissions) = 0
     THEN IF Len(manageList) = 0
          THEN [allowed |-> FALSE,
                reason |-> "No permission for " \o permissionCode]
          ELSE [allowed |-> TRUE,
                matchedPermission |-> Head(manageList),
                effectiveScope |-> Head(manageList).scope]
     ELSE LET bestPermission == sortByScope(matchingPermissions)[1]
          IN IF scopeDenied(bestPermission, request.userId, request.targetOwnerId)
             THEN [allowed |-> FALSE,
                   reason |-> "Permission only allows access to own resources",
                   matchedPermission |-> bestPermission,
                   effectiveScope |-> bestPermission.scope]
             ELSE [allowed |-> TRUE,
                   matchedPermission |-> bestPermission,
                   effectiveScope |-> bestPermission.scope]

\* the calls that read the store and return a decision
QueryOps ==
  {"checkPermission", "checkPermissions", "hasRole", "getEffectivePermissions",
   "getPermissions", "withPermission", "withOwnershipPermission"}
\* calls are made one after the other: the caller of a query takes its result
\* (Continue) before the next call starts
Idle == ret.op \notin QueryOps

\* the rows of a list of permission ids
permissionRows(idList) == [i \in 1..Len(idList) |-> permissions[idList[i]]]

Requests ==
  {[userId |-> u, resource |-> pair[1], action |-> pair[2],
    targetDepartmentId |-> d, targetOwnerId |-> o] :
     u \in AssignUsers, pair \in CheckPairs, d \in Depts \cup {Undef}, o \in Users \cup {Undef}}

\* a call of authorizationService.checkPermission
CheckPermission ==
  \E request \in Requests :
    \E idList \in Orderings(getAllUserPermissions(request.userId, request.targetDepartmentId)) :
      /\ Idle
      /\ ret' = [op |-> "checkPermission", request |-> request,
                 permissions |-> getAllUserPermissions(request.userId, request.targetDepartmentId),
                 result |-> checkPermission(request, permissionRows(idList))]
      /\ UNCHANGED <<store, now, ops, calls>>

\* a call of authorizationService.hasRole
HasRole ==
  \E userId \in AssignUsers, r \in RoleIds, departmentId \in Depts \cup {Undef} :
    /\ Idle
    /\ ret' = [op |-> "hasRole", userId |-> userId, roleCode |-> DEFAULT_ROLES[r].code,
               departmentId |-> departmentId,
               result |-> hasRole(userId, DEFAULT_ROLES[r].code, departmentId)]
    /\ UNCHANGED <<store, now, ops, calls>>

\* the loop of authorizationService.checkPermissions over the list
\* getAllUserPermissions(userId) returned: the Map from code to boolean
RECURSIVE checkPermissions(_, _)
checkPermissions(permissionIds, checks) ==
  IF checks = <<>> THEN <<>>
  ELSE LET results == checkPermissions(permissionIds, SubSeq(checks, 1, Len(checks) - 1))
           check == checks[Len(checks)]
           code == toLowerCase[check[1]] \o ":" \o toLowerCase[check[2]]
           hasPermission ==
             \E p \in permissionIds :
               \/ isExact(permissions[p], check[1], check[2])
               \/ isManage(permissions[p], check[1])
       IN [c \in DOMAIN results \cup {code} |->
             IF c = code THEN hasPermission ELSE results[c]]

\* the lists of checks callers pass
CheckLists ==
  {<<pair>> : pair \in CheckPairs} \cup {<<<<"USER", "READ">>, <<"USER", "DELETE">>>>}

\* a call of authorizationService.checkPermissions
CheckPermissions ==
  \E userId \in AssignUsers, checks \in CheckLists :
    /\ Idle
    /\ ret' = [op |-> "checkPermissions", userId |-> userId, checks |-> checks,
               permissions |-> getAllUserPermissions(userId, Undef),
               result |-> checkPermissions(getAllUserPermissions(userId, Undef), checks)]
    /\ UNCHANGED <<store, now, ops, calls>>

\* push every item, seen or not
pushUnseen_SeenAsWell(list, items) == list \o items

\* push the items of a list that are not in the list yet
RECURSIVE pushUnseen(_, _)
pushUnseen(list, items) ==
  IF items = <<>> THEN list
  ELSE LET x == Head(items)
       IN pushUnseen(IF \E i \in 1..Len(list) : list[i] = x THEN list ELSE Append(list, x),
                     Tail(items))

\* role.permissions of a row getUserRoles returned, in the order of the store
rolePermissionList(roleId) ==
  CHOOSE l \in Orderings(activeRolePermissions(roleId)) : TRUE

\* the loop of authorizationService.getEffectivePermissions over the rows
\* getUserRoles returned (roles and permissions by id)
RECURSIVE getEffectivePermissions(_, _)
getEffectivePermissions(userId, userRoleList) ==
  IF userRoleList = <<>>
  THEN [userId |-> userId, permissions |-> <<>>, roles |-> <<>>,
        departmentRoles |-> [d \in {} |-> <<>>], computedAt |-> now]
  ELSE LET acc == getEffectivePermissions(userId, SubSeq(userRoleList, 1, Len(userRoleList) - 1))
           userRole == userRoleList[Len(userRoleList)]
           deptRoles == IF userRole.departmentId \in DOMAIN acc.departmentRoles
                        THEN acc.departmentRoles[userRole.departmentId] ELSE <<>>
       IN [userId |-> userId,
           permissions |-> pushUnseen(acc.permissions, rolePermissionList(userRole.roleId)),
           roles |-> pushUnseen(acc.roles, <<userRole.roleId>>),
           departmentRoles |->
             IF userRole.departmentId # Null
             THEN [d \in DOMAIN acc.departmentRoles \cup {userRole.departmentId} |->
                     IF d = userRole.departmentId THEN Append(deptRoles, userRole.roleId)
                     ELSE acc.departmentRoles[d]]
             ELSE acc.departmentRoles,
           computedAt |-> now]

\* a call of authorizationService.getEffectivePermissions
GetEffectivePermissions ==
  \E userId \in AssignUsers :
    \E userRoleList \in Orderings(getUserRoles(userId)) :
      /\ Idle
      /\ ret' = [op |-> "getEffectivePermissions", userId |-> userId,
                 result |-> getEffectivePermissions(userId, userRoleList)]
      /\ UNCHANGED <<store, now, ops, calls>>

\* ------------------------------------------------------------------------
\* Administration (the calls that write the store)
\* ------------------------------------------------------------------------
\* a missing departmentId addresses the rows of every department
matchesTriple_EveryDepartment(ur, userId, roleId, departmentId) ==
  /\ ur.userId = userId
  /\ ur.roleId = roleId
  /\ (departmentId = Undef \/ ur.departmentId = departmentId)

\* the rows userRoleRepository.assign and revoke address: departmentId ?? null
matchesTriple(ur, userId, roleId, departmentId) ==
  /\ ur.userId = userId
  /\ ur.roleId = roleId
  /\ ur.departmentId = (IF departmentId = Undef THEN Null ELSE departmentId)

\* the update without assignedAt
assignUpdate_AssignedAtKept(existing, data) ==
  (userRoles \ {existing}) \cup
    {[existing EXCEPT !.isActive = TRUE,
                      !.expiresAt = IF data.expiresAt = NoDate THEN @ ELSE data.expiresAt]}

\* userRoleRepository.assign when findFirst returned the row existing: an
\* undefined expiresAt leaves the column as it is
assignUpdate(existing, data) ==
  (userRoles \ {existing}) \cup
    {[existing EXCEPT !.isActive = TRUE,
                      !.expiresAt = IF data.expiresAt = NoDate THEN @ ELSE data.expiresAt,
                      !.assignedAt = now]}

\* userRoleRepository.assign when findFirst returned null
assignCreate(data) ==
  userRoles \cup
    {[id |-> nextId, userId |-> data.userId, roleId |-> data.roleId,
      departmentId |-> IF data.departmentId = Undef THEN Null ELSE data.departmentId,
      isActive |-> TRUE,
      expiresAt |-> data.expiresAt,
      assignedAt |-> now]}

AssignInputs ==
  [userId : AssignUsers, roleId : RoleIds, departmentId : Depts \cup {Undef},
   expiresAt : {Date(t) : t \in 1..MaxTime} \cup {NoDate}]

\* the insert of assign names a department that does not exist: the foreign
\* key user_roles_department_id_fkey rejects it and the call throws
userRolesForeignKeyRejects(data) ==
  /\ \A ur \in userRoles :
       ~matchesTriple(ur, data.userId, data.roleId, data.departmentId)
  /\ data.departmentId # Undef
  /\ data.departmentId \notin DOMAIN departments

\* authorizationService.assignRole; found is what findFirst returned, kept
\* with the result for the properties
AssignRole ==
  \E data \in AssignInputs :
    /\ Idle
    /\ ops < MaxOps
    /\ ops' = ops + 1
    /\ UNCHANGED <<permissions, roles, rolePermissions, departments, users, now, calls>>
    /\ IF data.roleId \notin DOMAIN roles
       THEN /\ ret' = [op |-> "assignRole", data |-> data, result |-> "ROLE_NOT_FOUND"]
            /\ UNCHANGED <<userRoles, nextId>>
       ELSE IF ~roles[data.roleId].isActive
       THEN /\ ret' = [op |-> "assignRole", data |-> data, result |-> "INACTIVE_ROLE"]
            /\ UNCHANGED <<userRoles, nextId>>
       ELSE IF userRolesForeignKeyRejects(data)
       THEN /\ ret' = [op |-> "assignRole", data |-> data, result |-> "throws"]
            /\ UNCHANGED <<userRoles, nextId>>
       ELSE /\ ret' = [op |-> "assignRole", data |-> data, result |-> "success",
                       found |-> {ur \in userRoles :
                                    matchesTriple(ur, data.userId, data.roleId,
                                                  data.departmentId)}]
            /\ LET found == {ur \in userRoles :
                               matchesTriple(ur, data.userId, data.roleId, data.departmentId)}
               IN IF found # {}
                  THEN /\ \E existing \in found : userRoles' = assignUpdate(existing, data)
                       /\ UNCHANGED nextId
                  ELSE /\ userRoles' = assignCreate(data)
                       /\ nextId' = nextId + 1

\* userRoleRepository.revoke
revoke(userId, roleId, departmentId) ==
  {IF matchesTriple(ur, userId, roleId, departmentId)
     THEN [ur EXCEPT !.isActive = FALSE] ELSE ur : ur \in userRoles}

\* authorizationService.revokeRole
RevokeRole ==
  \E userId \in AssignUsers, roleId \in RoleIds, departmentId \in Depts \cup {Undef} :
    /\ Idle
    /\ ops < MaxOps
    /\ ops' = ops + 1
    /\ userRoles' = revoke(userId, roleId, departmentId)
    /\ ret' = [op |-> "revokeRole", userId |-> userId, roleId |-> roleId,
               departmentId |-> departmentId, result |-> "success"]
    /\ UNCHANGED <<permissions, roles, rolePermissions, nextId, departments, users, now, calls>>

\* roleService.deactivate
DeactivateRole ==
  \E id \in RoleIds :
    /\ Idle
    /\ ops < MaxOps
    /\ ops' = ops + 1
    /\ UNCHANGED <<permissions, rolePermissions, userRoles, nextId, departments, users, now, calls>>
    /\ IF id \notin DOMAIN roles
       THEN /\ ret' = [op |-> "roleService.deactivate", id |-> id, result |-> "ROLE_NOT_FOUND"]
            /\ UNCHANGED roles
       ELSE IF roles[id].isSystem
       THEN /\ ret' = [op |-> "roleService.deactivate", id |-> id, result |-> "SYSTEM_ROLE"]
            /\ UNCHANGED roles
       ELSE /\ ret' = [op |-> "roleService.deactivate", id |-> id, result |-> "success"]
            /\ roles' = [roles EXCEPT ![id].isActive = FALSE]

\* permissionService.deactivate
DeactivatePermission ==
  \E id \in PermIds :
    /\ Idle
    /\ ops < MaxOps
    /\ ops' = ops + 1
    /\ UNCHANGED <<roles, rolePermissions, userRoles, nextId, departments, users, now, calls>>
    /\ IF id \notin DOMAIN permissions
       THEN /\ ret' = [op |-> "permissionService.deactivate", id |-> id, result |-> "PERMISSION_NOT_FOUND"]
            /\ UNCHANGED permissions
       ELSE IF permissions[id].isSystem
       THEN /\ ret' = [op |-> "permissionService.deactivate", id |-> id, result |-> "SYSTEM_PERMISSION"]
            /\ UNCHANGED permissions
       ELSE /\ ret' = [op |-> "permissionService.deactivate", id |-> id, result |-> "success"]
            /\ permissions' = [permissions EXCEPT ![id].isActive = FALSE]

\* create in place of upsert, on a table without the unique index
grantPermission_AlwaysCreate(data) ==
  rolePermissions \cup
    {[id |-> nextId, roleId |-> data.roleId, permissionId |-> data.permissionId,
      grantedById |-> IF data.grantedById = Undef THEN Null ELSE data.grantedById]}

\* roleRepository.grantPermission: the upsert keyed by (roleId, permissionId)
\* with an empty update
grantPermission(data) ==
  IF \E rp \in rolePermissions :
       rp.roleId = data.roleId /\ rp.permissionId = data.permissionId
  THEN rolePermissions
  ELSE rolePermissions \cup
         {[id |-> nextId, roleId |-> data.roleId, permissionId |-> data.permissionId,
           grantedById |-> IF data.grantedById = Undef THEN Null ELSE data.grantedById]}

\* the administrator that grants, who passes the own id as grantedById
Granters == {"u2"}
GrantInputs == [roleId : RoleIds, permissionId : PermIds, grantedById : Granters]

\* roleService.grantPermission
GrantPermission ==
  \E data \in GrantInputs :
    /\ Idle
    /\ ops < MaxOps
    /\ ops' = ops + 1
    /\ UNCHANGED <<permissions, roles, userRoles, departments, users, now, calls>>
    /\ IF data.roleId \notin DOMAIN roles
       THEN /\ ret' = [op |-> "grantPermission", data |-> data, result |-> "ROLE_NOT_FOUND"]
            /\ UNCHANGED <<rolePermissions, nextId>>
       ELSE IF data.permissionId \notin DOMAIN permissions
       THEN /\ ret' = [op |-> "grantPermission", data |-> data, result |-> "PERMISSION_NOT_FOUND"]
            /\ UNCHANGED <<rolePermissions, nextId>>
       ELSE /\ ret' = [op |-> "grantPermission", data |-> data, result |-> "success"]
            /\ rolePermissions' = grantPermission(data)
            /\ nextId' = IF rolePermissions' = rolePermissions THEN nextId ELSE nextId + 1

\* roleRepository.revokePermission
revokePermission(roleId, permissionId) ==
  {rp \in rolePermissions : ~(rp.roleId = roleId /\ rp.permissionId = permissionId)}

\* roleService.revokePermission
RevokePermission ==
  \E roleId \in RoleIds, permissionId \in PermIds :
    /\ Idle
    /\ ops < MaxOps
    /\ ops' = ops + 1
    /\ UNCHANGED <<permissions, roles, userRoles, nextId, departments, users, now, calls>>
    /\ IF roleId \notin DOMAIN roles
       THEN /\ ret' = [op |-> "revokePermission", result |-> "ROLE_NOT_FOUND"]
            /\ UNCHANGED rolePermissions
       ELSE /\ ret' = [op |-> "revokePermission", result |-> "success"]
            /\ rolePermissions' = revokePermission(roleId, permissionId)

\* an id of no role and an id of no permission
MissingRoleId == "r9"
MissingPermissionId == "p9"
\* the lists of permission ids passed to setPermissions: empty, new grants,
\* an id twice, an id of no permission
PermissionIdLists ==
  {<<>>, <<"p5">>, <<"p1", "p5">>, <<"p5", "p5">>, <<"p1", MissingPermissionId>>}
SetPermissionsInputs ==
  [roleId : RoleIds \cup {MissingRoleId}, permissionIds : PermissionIdLists,
   grantedById : Granters]

\* prisma.rolePermission.deleteMany({ where: { roleId } }): the rows it deletes
deleteMany(table, roleId) == {rp \in table : rp.roleId = roleId}

\* prisma.rolePermission.createMany: the rows it inserts, one for each element
\* of permissionIds
createMany(data) ==
  {[id |-> nextId + i - 1, roleId |-> data.roleId, permissionId |-> data.permissionIds[i],
    grantedById |-> IF data.grantedById = Undef THEN Null ELSE data.grantedById] :
     i \in 1..Len(data.permissionIds)}

\* the insert is rejected by a constraint of role_permissions: the foreign
\* keys to roles and permissions, the unique index on (role_id, permission_id)
createManyRejected(table, data) ==
  \/ data.roleId \notin DOMAIN roles
  \/ \E i \in 1..Len(data.permissionIds) : data.permissionIds[i] \notin DOMAIN permissions
  \/ \E i, j \in 1..Len(data.permissionIds) :
       i # j /\ data.permissionIds[i] = data.permissionIds[j]
  \/ \E rp \in table : \E i \in 1..Len(data.permissionIds) :
       rp.roleId = data.roleId /\ rp.permissionId = data.permissionIds[i]

\* a rejected insert leaves the rows deleteMany deleted out of the table
setPermissions_DeleteKept(data) ==
  LET afterDelete == rolePermissions \ deleteMany(rolePermissions, data.roleId)
  IN IF createManyRejected(afterDelete, data)
     THEN afterDelete
     ELSE afterDelete \cup createMany(data)

\* roleRepository.setPermissions: the table after
\* prisma.$transaction([deleteMany, createMany]), which is rolled back when
\* the insert is rejected
setPermissions(data) ==
  LET afterDelete == rolePermissions \ deleteMany(rolePermissions, data.roleId)
  IN IF createManyRejected(afterDelete, data)
     THEN rolePermissions
     ELSE afterDelete \cup createMany(data)

\* roleService.setPermissions, called with no other call under way. The
\* rejection of the transaction is not caught: the call throws.
SetPermissions ==
  \E data \in SetPermissionsInputs :
    /\ Idle
    /\ ops < MaxOps
    /\ ops' = ops + 1
    /\ UNCHANGED <<permissions, roles, userRoles, departments, users, now, calls>>
    /\ IF data.roleId \notin DOMAIN roles
       THEN /\ ret' = [op |-> "setPermissions", data |-> data, result |-> "ROLE_NOT_FOUND"]
            /\ UNCHANGED <<rolePermissions, nextId>>
       ELSE /\ rolePermissions' = setPermissions(data)
            /\ nextId' = nextId + Len(data.permissionIds)
            /\ ret' = [op |-> "setPermissions", data |-> data,
                       result |-> IF createManyRejected(
                                       rolePermissions \ deleteMany(rolePermissions, data.roleId),
                                       data)
                                  THEN "throws" ELSE "success"]

\* time passes
Tick ==
  /\ Idle
  /\ now < MaxTime
  /\ now' = now + 1
  /\ ret' = [op |-> "tick"]
  /\ UNCHANGED <<store, ops, calls>>

\* the caller takes the result of a query
Continue ==
  /\ ~Idle
  /\ ret' = [op |-> "none"]
  /\ UNCHANGED <<store, now, ops, calls>>

Next ==
  \/ Continue
  \/ CheckPermission
  \/ CheckPermissions
  \/ HasRole
  \/ GetEffectivePermissions
  \/ AssignRole
  \/ RevokeRole
  \/ DeactivateRole
  \/ DeactivatePermission
  \/ GrantPermission
  \/ RevokePermission
  \/ Tick

Spec == Init /\ [][Next]_vars

\* roleService.getPermissions: the permissions of the grant rows of the role,
\* active or not
GetPermissions ==
  \E roleId \in RoleIds :
    /\ Idle
    /\ ret' = [op |-> "getPermissions", roleId |-> roleId,
               result |-> IF roleId \notin DOMAIN roles THEN {"ROLE_NOT_FOUND"}
                          ELSE {rp.permissionId : rp \in deleteMany(rolePermissions, roleId)}]
    /\ UNCHANGED <<store, now, ops, calls>>

\* ------------------------------------------------------------------------
\* setPermissions while other callers read: the statements of the
\* transaction are steps of their own
\* ------------------------------------------------------------------------
\* the call of the caller is past its first statement and has not returned
UnderWay(c) == calls[c].pc \notin {"idle", "done"}

\* roleService.setPermissions up to the start of the transaction: findById.
\* The call starts when the reader has taken its last result, so that a result
\* held while the call is under way was read while it was under way; before is
\* the grant set of the role at the start, kept for the properties.
SetPermissionsFind(c) ==
  \E data \in SetPermissionsInputs :
    /\ Idle
    /\ \A d \in Callers : ~UnderWay(d)
    /\ ops < MaxOps
    /\ ops' = ops + 1
    /\ calls' = [calls EXCEPT ![c] =
         IF data.roleId \notin DOMAIN roles
         THEN [pc |-> "done", op |-> "setPermissions", data |-> data,
               result |-> "ROLE_NOT_FOUND"]
         ELSE [pc |-> "deleteMany", op |-> "setPermissions", data |-> data,
               before |-> {rp.permissionId : rp \in deleteMany(rolePermissions, data.roleId)},
               deleted |-> {}, created |-> {}]]
    /\ UNCHANGED <<store, now, ret>>

\* the delete is committed at once, as a statement outside a transaction is
TransactionDeleteMany_AutoCommit(c) ==
  /\ calls[c].pc = "deleteMany"
  /\ rolePermissions' = rolePermissions \ deleteMany(rolePermissions, calls[c].data.roleId)
  /\ calls' = [calls EXCEPT ![c].pc = "createMany"]
  /\ UNCHANGED <<permissions, roles, userRoles, nextId, departments, users, now, ops, ret>>

\* the first statement of the transaction: the rows are deleted for the
\* transaction only, the other callers go on reading the committed table
TransactionDeleteMany(c) ==
  /\ calls[c].pc = "deleteMany"
  /\ calls' = [calls EXCEPT ![c].pc = "createMany",
                            ![c].deleted = deleteMany(rolePermissions, calls[c].data.roleId)]
  /\ UNCHANGED <<store, now, ops, ret>>

\* the second statement: rejected, the transaction is rolled back and the call
\* throws; accepted, the rows wait for the commit
TransactionCreateMany(c) ==
  /\ calls[c].pc = "createMany"
  /\ IF createManyRejected(rolePermissions \ calls[c].deleted, calls[c].data)
     THEN /\ calls' = [calls EXCEPT ![c] =
                [pc |-> "done", op |-> "setPermissions", data |-> calls[c].data,
                 before |-> calls[c].before, result |-> "throws"]]
          /\ UNCHANGED nextId
     ELSE /\ calls' = [calls EXCEPT ![c].pc = "commit",
                                    ![c].created = createMany(calls[c].data)]
          /\ nextId' = nextId + Len(calls[c].data.permissionIds)
  /\ UNCHANGED <<permissions, roles, rolePermissions, userRoles, departments, users, now, ops, ret>>

\* the commit: the deletes and the inserts become visible together
TransactionCommit(c) ==
  /\ calls[c].pc = "commit"
  /\ rolePermissions' = (rolePermissions \ calls[c].deleted) \cup calls[c].created
  /\ calls' = [calls EXCEPT ![c] =
        [pc |-> "done", op |-> "setPermissions", data |-> calls[c].data,
         before |-> calls[c].before, result |-> "success"]]
  /\ UNCHANGED <<permissions, roles, userRoles, nextId, departments, users, now, ops, ret>>

\* the administrator that replaces grant sets
Replacer == "c1"

NextReplace ==
  \/ Continue
  \/ CheckPermission
  \/ GetPermissions
  \/ AssignRole
  \/ SetPermissionsFind(Replacer)
  \/ TransactionDeleteMany(Replacer)
  \/ TransactionCreateMany(Replacer)
  \/ TransactionCommit(Replacer)

\* one administrator replaces grant sets while a caller assigns roles, reads
\* grant sets and checks permissions
SpecReplace == Init /\ [][NextReplace]_vars

\* UpdatePermissionInput and UpdateRoleInput: the optional isActive is <<b>>
\* or <<>>, the optional scope a scope or Undef
UpdatePermissionInputs == [scope : {Undef, "ALL"}, isActive : {<<>>, <<TRUE>>, <<FALSE>>}]
\* the id a created role gets, and the ids a role service call may name
NewRoleIds == {"r3"}
AllRoleIds == RoleIds \cup NewRoleIds
UpdateRoleInputs ==
  [isActive : {<<>>, <<TRUE>>, <<FALSE>>},
   parentRoleId : {Undef, Null, MissingRoleId} \cup AllRoleIds]
\* CreateRoleInput: the code and the optional parent
CreateRoleInputs ==
  [code : {"employee", "auditor"}, parentRoleId : {Undef, MissingRoleId} \cup AllRoleIds]

\* permissionService.update
UpdatePermission ==
  \E id \in PermIds, data \in UpdatePermissionInputs :
    /\ Idle
    /\ ops < MaxOps
    /\ ops' = ops + 1
    /\ UNCHANGED <<roles, rolePermissions, userRoles, nextId, departments, users, now, calls>>
    /\ IF id \notin DOMAIN permissions
       THEN /\ ret' = [op |-> "permissionService.update", id |-> id, data |-> data,
                       result |-> "PERMISSION_NOT_FOUND"]
            /\ UNCHANGED permissions
       ELSE IF permissions[id].isSystem /\ data.isActive = <<FALSE>>
       THEN /\ ret' = [op |-> "permissionService.update", id |-> id, data |-> data,
                       result |-> "SYSTEM_PERMISSION"]
            /\ UNCHANGED permissions
       ELSE /\ ret' = [op |-> "permissionService.update", id |-> id, data |-> data,
                       result |-> "success"]
            /\ permissions' =
                 [permissions EXCEPT
                    ![id].scope = IF data.scope = Undef THEN @ ELSE data.scope,
                    ![id].isActive = IF data.isActive = <<>> THEN @ ELSE data.isActive[1]]

\* permissionService.delete; the grant rows of the permission go with it
\* (ON DELETE CASCADE)
DeletePermission ==
  \E id \in PermIds :
    /\ Idle
    /\ ops < MaxOps
    /\ ops' = ops + 1
    /\ UNCHANGED <<roles, userRoles, nextId, departments, users, now, calls>>
    /\ IF id \notin DOMAIN permissions
       THEN /\ ret' = [op |-> "permissionService.delete", id |-> id,
                       result |-> "PERMISSION_NOT_FOUND"]
            /\ UNCHANGED <<permissions, rolePermissions>>
       ELSE IF permissions[id].isSystem
       THEN /\ ret' = [op |-> "permissionService.delete", id |-> id,
                       result |-> "SYSTEM_PERMISSION"]
            /\ UNCHANGED <<permissions, rolePermissions>>
       ELSE /\ ret' = [op |-> "permissionService.delete", id |-> id, result |-> "success"]
            /\ permissions' = [p \in DOMAIN permissions \ {id} |-> permissions[p]]
            /\ rolePermissions' = {rp \in rolePermissions : rp.permissionId # id}

\* roleService.create; roleRepository.create stores the parent as given; the
\* inputs leave isSystem out, so the role is not a system role, and it is
\* active by the default of the column
CreateRole ==
  \E id \in NewRoleIds, data \in CreateRoleInputs :
    /\ Idle
    /\ ops < MaxOps
    /\ ops' = ops + 1
    /\ id \notin DOMAIN roles
    /\ UNCHANGED <<permissions, rolePermissions, userRoles, nextId, departments, users, now, calls>>
    /\ IF \E r \in DOMAIN roles : roles[r].code = data.code
       THEN /\ ret' = [op |-> "roleService.create", data |-> data,
                       result |-> "ROLE_CODE_EXISTS"]
            /\ UNCHANGED roles
       ELSE IF data.parentRoleId # Undef /\ data.parentRoleId \notin DOMAIN roles
       THEN /\ ret' = [op |-> "roleService.create", data |-> data,
                       result |-> "PARENT_ROLE_NOT_FOUND"]
            /\ UNCHANGED roles
       ELSE /\ ret' = [op |-> "roleService.create", data |-> data, id |-> id,
                       result |-> "success"]
            /\ roles' =
                 [r \in DOMAIN roles \cup {id} |->
                    IF r = id
                    THEN [id |-> id, code |-> data.code, isActive |-> TRUE,
                          isSystem |-> FALSE,
                          parentRoleId |-> IF data.parentRoleId = Undef THEN Null
                                           ELSE data.parentRoleId]
                    ELSE roles[r]]

\* the update without the test that the parent is the role itself
UpdateRole_SelfNotTested ==
  \E id \in AllRoleIds, data \in UpdateRoleInputs :
    /\ Idle
    /\ ops < MaxOps
    /\ ops' = ops + 1
    /\ UNCHANGED <<permissions, rolePermissions, userRoles, nextId, departments, users, now, calls>>
    /\ IF id \notin DOMAIN roles
       THEN /\ ret' = [op |-> "roleService.update", id |-> id, data |-> data,
                       result |-> "ROLE_NOT_FOUND"]
            /\ UNCHANGED roles
       ELSE IF roles[id].isSystem /\ data.isActive = <<FALSE>>
       THEN /\ ret' = [op |-> "roleService.update", id |-> id, data |-> data,
                       result |-> "SYSTEM_ROLE"]
            /\ UNCHANGED roles
       ELSE IF data.parentRoleId \notin {Undef, Null} /\ data.parentRoleId \notin DOMAIN roles
       THEN /\ ret' = [op |-> "roleService.update", id |-> id, data |-> data,
                       result |-> "PARENT_ROLE_NOT_FOUND"]
            /\ UNCHANGED roles
       ELSE /\ ret' = [op |-> "roleService.update", id |-> id, data |-> data,
                       result |-> "success"]
            /\ roles' = [roles EXCEPT
                           ![id].isActive = IF data.isActive = <<>> THEN @ ELSE data.isActive[1],
                           ![id].parentRoleId =
                              IF data.parentRoleId = Undef THEN @ ELSE data.parentRoleId]

\* roleService.update; a parent that is given (neither undefined nor null) is
\* looked up and compared with the role, and prisma leaves the columns of
\* undefined fields alone
UpdateRole ==
  \E id \in AllRoleIds, data \in UpdateRoleInputs :
    /\ Idle
    /\ ops < MaxOps
    /\ ops' = ops + 1
    /\ UNCHANGED <<permissions, rolePermissions, userRoles, nextId, departments, users, now, calls>>
    /\ IF id \notin DOMAIN roles
       THEN /\ ret' = [op |-> "roleService.update", id |-> id, data |-> data,
                       result |-> "ROLE_NOT_FOUND"]
            /\ UNCHANGED roles
       ELSE IF roles[id].isSystem /\ data.isActive = <<FALSE>>
       THEN /\ ret' = [op |-> "roleService.update", id |-> id, data |-> data,
                       result |-> "SYSTEM_ROLE"]
            /\ UNCHANGED roles
       ELSE IF data.parentRoleId \notin {Undef, Null} /\ data.parentRoleId \notin DOMAIN roles
       THEN /\ ret' = [op |-> "roleService.update", id |-> id, data |-> data,
                       result |-> "PARENT_ROLE_NOT_FOUND"]
            /\ UNCHANGED roles
       ELSE IF data.parentRoleId \notin {Undef, Null} /\ data.parentRoleId = id
       THEN /\ ret' = [op |-> "roleService.update", id |-> id, data |-> data,
                       result |-> "INVALID_PARENT_ROLE"]
            /\ UNCHANGED roles
       ELSE /\ ret' = [op |-> "roleService.update", id |-> id, data |-> data,
                       result |-> "success"]
            /\ roles' = [roles EXCEPT
                           ![id].isActive = IF data.isActive = <<>> THEN @ ELSE data.isActive[1],
                           ![id].parentRoleId =
                              IF data.parentRoleId = Undef THEN @ ELSE data.parentRoleId]

\* the roles that stay when role id is deleted; a role whose parent it was
\* has no parent any more (ON DELETE SET NULL)
rolesWithout(id) ==
  [r \in DOMAIN roles \ {id} |->
     IF roles[r].parentRoleId = id THEN [roles[r] EXCEPT !.parentRoleId = Null]
     ELSE roles[r]]

\* the delete without the test of isSystem, in the service and in the
\* where clause
DeleteRole_SystemNotTested ==
  \E id \in AllRoleIds :
    /\ Idle
    /\ ops < MaxOps
    /\ ops' = ops + 1
    /\ UNCHANGED <<permissions, nextId, departments, users, now, calls>>
    /\ IF id \notin DOMAIN roles
       THEN /\ ret' = [op |-> "roleService.delete", id |-> id, result |-> "ROLE_NOT_FOUND"]
            /\ UNCHANGED <<roles, rolePermissions, userRoles>>
       ELSE /\ ret' = [op |-> "roleService.delete", id |-> id, result |-> "success"]
            /\ roles' = rolesWithout(id)
            /\ rolePermissions' = {rp \in rolePermissions : rp.roleId # id}
            /\ userRoles' = {ur \in userRoles : ur.roleId # id}

\* roleService.delete; the grant rows and the assignments of the role go with
\* it (ON DELETE CASCADE)
DeleteRole ==
  \E id \in AllRoleIds :
    /\ Idle
    /\ ops < MaxOps
    /\ ops' = ops + 1
    /\ UNCHANGED <<permissions, nextId, departments, users, now, calls>>
    /\ IF id \notin DOMAIN roles
       THEN /\ ret' = [op |-> "roleService.delete", id |-> id, result |-> "ROLE_NOT_FOUND"]
            /\ UNCHANGED <<roles, rolePermissions, userRoles>>
       ELSE IF roles[id].isSystem
       THEN /\ ret' = [op |-> "roleService.delete", id |-> id, result |-> "SYSTEM_ROLE"]
            /\ UNCHANGED <<roles, rolePermissions, userRoles>>
       ELSE /\ ret' = [op |-> "roleService.delete", id |-> id, result |-> "success"]
            /\ roles' = rolesWithout(id)
            /\ rolePermissions' = {rp \in rolePermissions : rp.roleId # id}
            /\ userRoles' = {ur \in userRoles : ur.roleId # id}

\* the administration of the catalog, the roles and the grants, one call after
\* the other
NextAdmin ==
  \/ Continue
  \/ GetPermissions
  \/ GrantPermission
  \/ RevokePermission
  \/ SetPermissions
  \/ UpdatePermission
  \/ DeactivatePermission
  \/ DeletePermission
  \/ CreateRole
  \/ UpdateRole
  \/ DeactivateRole
  \/ DeleteRole

SpecAdmin == Init /\ [][NextAdmin]_vars

\* what a wrapped handler does when it is run: it returns a value, throws an
\* Error, or throws something that is not an Error
HandlerOutcomes == {"returns", "throws Error", "throws value"}

\* the ActionResult of a wrapper whose handler ran: the try block
handled(outcome) ==
  CASE outcome = "returns" -> [success |-> TRUE, data |-> "result"]
    [] outcome = "throws Error" -> [success |-> FALSE, error |-> "message"]
    [] outcome = "throws value" -> [success |-> FALSE, error |-> "Unknown error"]

\* the wrapper body after getUserId (and getOwnerId): can(...) on the list
\* the store returned, then the handler unless the check was denied
guarded(op, request, idList, outcome) ==
  LET allowed == checkPermission(request, permissionRows(idList)).allowed
  IN IF ~allowed
     THEN [op |-> op, request |-> request, handler |-> "not invoked",
           result |-> [success |-> FALSE, error |-> "Permission denied",
                       code |-> "PERMISSION_DENIED"]]
     ELSE [op |-> op, request |-> request, handler |-> outcome,
           result |-> handled(outcome)]

\* a call of an action wrapped by withPermission
WithPermission ==
  \E userId \in AssignUsers, pair \in CheckPairs, outcome \in HandlerOutcomes :
    LET request == [userId |-> userId, resource |-> pair[1], action |-> pair[2],
                    targetDepartmentId |-> Undef, targetOwnerId |-> Undef]
    IN \E idList \in Orderings(getAllUserPermissions(userId, Undef)) :
         /\ Idle
         /\ ret' = guarded("withPermission", request, idList, outcome)
         /\ UNCHANGED <<store, now, ops, calls>>

\* the wrapper that does not pass the owner to can
WithOwnershipPermission_OwnerNotPassed ==
  \E userId \in AssignUsers, ownerId \in Users, pair \in CheckPairs,
     outcome \in HandlerOutcomes :
    LET request == [userId |-> userId, resource |-> pair[1], action |-> pair[2],
                    targetDepartmentId |-> Undef, targetOwnerId |-> ownerId]
    IN \E idList \in Orderings(getAllUserPermissions(userId, Undef)) :
         /\ Idle
         /\ ret' = [guarded("withOwnershipPermission",
                            [request EXCEPT !.targetOwnerId = Undef], idList, outcome)
                      EXCEPT !.request = request]
         /\ UNCHANGED <<store, now, ops, calls>>

\* a call of an action wrapped by withOwnershipPermission; getOwnerId
\* resolves the owner of the target
WithOwnershipPermission ==
  \E userId \in AssignUsers, ownerId \in Users, pair \in CheckPairs,
     outcome \in HandlerOutcomes :
    LET request == [userId |-> userId, resource |-> pair[1], action |-> pair[2],
                    targetDepartmentId |-> Undef, targetOwnerId |-> ownerId]
    IN \E idList \in Orderings(getAllUserPermissions(userId, Undef)) :
         /\ Idle
         /\ ret' = guarded("withOwnershipPermission", request, idList, outcome)
         /\ UNCHANGED <<store, now, ops, calls>>

\* server actions behind the wrappers, while roles are assigned and revoked
\* and grants are made
NextGuarded ==
  \/ Continue
  \/ AssignRole
  \/ RevokeRole
  \/ GrantPermission
  \/ WithPermission
  \/ WithOwnershipPermission

SpecGuarded == Init /\ [][NextGuarded]_vars

\* revokeRoleFromUser, the server action, called by two signed-in
\* administrators at the same time. The store is the seeded one with the role
\* super-admin (which holds user:manage) in the place of the approver role,
\* held globally by some of the users.
SUPER_ADMIN_ROLES ==
  [DEFAULT_ROLES EXCEPT !["r2"].code = "super-admin", !["r2"].isSystem = TRUE]
SUPER_ADMIN_PERMISSIONS ==
  {[id |-> 1, roleId |-> "r1", permissionId |-> "p1", grantedById |-> Null],
   [id |-> 2, roleId |-> "r2", permissionId |-> "p5", grantedById |-> Null]}
\* session.user.dbUserId of each caller
dbUserId == [c \in Callers |-> IF c = "c1" THEN "u1" ELSE "u2"]

InitSuperAdmins ==
  /\ permissions = DEFAULT_PERMISSIONS
  /\ roles = SUPER_ADMIN_ROLES
  /\ departments = DEFAULT_DEPARTMENTS
  /\ users = DEFAULT_USERS
  /\ rolePermissions = SUPER_ADMIN_PERMISSIONS
  /\ \E holders \in SUBSET Users \ {{}} :
       userRoles =
         {[id |-> IF u = "u1" THEN 3 ELSE 4, userId |-> u, roleId |-> "r2",
           departmentId |-> Null, isActive |-> TRUE, expiresAt |-> NoDate,
           assignedAt |-> 0] : u \in holders}
  /\ nextId = 5
  /\ now = 0
  /\ ops = 0
  /\ ret = [op |-> "none"]
  /\ calls = [c \in Callers |-> [pc |-> "idle"]]

\* the arguments of revokeRoleFromUser
RevokeInputs == [userId : Users, roleId : RoleIds, departmentId : {Undef, "d1"}]

\* userRoleRepository.getUsersByRole without a departmentId
getUsersByRole(roleId) ==
  {ur \in userRoles : ur.roleId = roleId /\ ur.isActive /\ NotExpired(ur)}

\* revokeRoleFromUser up to the answer of can(session.user.dbUserId, USER, MANAGE)
RevokeRoleFromUserCan(c) ==
  \E data \in RevokeInputs :
    \E idList \in Orderings(getAllUserPermissions(dbUserId[c], Undef)) :
      LET request == [userId |-> dbUserId[c], resource |-> "USER", action |-> "MANAGE",
                      targetDepartmentId |-> Undef, targetOwnerId |-> Undef]
          canManage == checkPermission(request, permissionRows(idList)).allowed
      IN /\ calls[c].pc = "idle"
         /\ calls' = [calls EXCEPT ![c] =
              IF ~canManage
              THEN [pc |-> "returned", op |-> "revokeRoleFromUser", data |-> data,
                    result |-> "PERMISSION_DENIED"]
              ELSE [pc |-> "count", op |-> "revokeRoleFromUser", data |-> data]]
         /\ UNCHANGED <<store, now, ops, ret>>

\* the guard of the role super-admin: the other users that hold it, counted
\* on the store as it is now
RevokeRoleFromUserCount(c) ==
  LET data == calls[c].data
      critical == data.roleId \in DOMAIN roles /\ roles[data.roleId].code = "super-admin"
      superAdminRoles == {r \in DOMAIN roles : roles[r].code = "super-admin"}
      activeSuperAdmins ==
        {ur \in UNION {getUsersByRole(r) : r \in superAdminRoles} :
           ur.isActive /\ ur.userId # data.userId}
  IN /\ calls[c].pc = "count"
     /\ calls' = [calls EXCEPT ![c] =
          IF critical /\ superAdminRoles # {} /\ activeSuperAdmins = {}
          THEN [pc |-> "returned", op |-> "revokeRoleFromUser", data |-> data,
                result |-> "VALIDATION_ERROR"]
          ELSE [pc |-> "revoke", op |-> "revokeRoleFromUser", data |-> data]]
     /\ UNCHANGED <<store, now, ops, ret>>

\* authorizationService.revokeRole at the end of revokeRoleFromUser
RevokeRoleFromUserRevoke(c) ==
  /\ calls[c].pc = "revoke"
  /\ userRoles' = revoke(calls[c].data.userId, calls[c].data.roleId,
                         calls[c].data.departmentId)
  /\ calls' = [calls EXCEPT ![c] =
       [pc |-> "returned", op |-> "revokeRoleFromUser", data |-> calls[c].data,
        result |-> "success"]]
  /\ UNCHANGED <<permissions, roles, rolePermissions, nextId, departments, users, now, ops, ret>>

\* the caller takes the result
RevokeRoleFromUserReturn(c) ==
  /\ calls[c].pc = "returned"
  /\ calls' = [calls EXCEPT ![c] = [pc |-> "idle"]]
  /\ UNCHANGED <<store, now, ops, ret>>

NextRevokeFromUser ==
  \/ \E c \in Callers : RevokeRoleFromUserCan(c)
  \/ \E c \in Callers : RevokeRoleFromUserCount(c)
  \/ \E c \in Callers : RevokeRoleFromUserRevoke(c)
  \/ \E c \in Callers : RevokeRoleFromUserReturn(c)

\* two administrators revoke roles at the same time
SpecRevokeFromUser == InitSuperAdmins /\ [][NextRevokeFromUser]_vars

\* The departments. A created department gets the id d3; a caller may name
\* any id. The parent named in an update is a department of the table or
\* null.
NewDeptIds == {"d3"}
AllDeptIds == Depts \cup NewDeptIds
MissingDepartmentId == "d9"
CreateDepartmentInputs ==
  [name : {"name of d1", "name of d3"},
   parentId : {Undef, MissingDepartmentId} \cup AllDeptIds]
UpdateDepartmentInputs ==
  [name : {Undef, "name of d2"}, parentId : {Undef, Null} \cup AllDeptIds]

\* departmentService.create
CreateDepartment ==
  \E id \in NewDeptIds, data \in CreateDepartmentInputs :
    /\ Idle
    /\ ops < MaxOps
    /\ ops' = ops + 1
    /\ id \notin DOMAIN departments
    /\ UNCHANGED <<permissions, roles, rolePermissions, userRoles, nextId, users, now, calls>>
    /\ IF \E d \in DOMAIN departments : departments[d].name = data.name
       THEN /\ ret' = [op |-> "departmentService.create", data |-> data,
                       result |-> "DUPLICATE_NAME"]
            /\ UNCHANGED departments
       ELSE IF data.parentId # Undef /\ data.parentId \notin DOMAIN departments
       THEN /\ ret' = [op |-> "departmentService.create", data |-> data,
                       result |-> "PARENT_NOT_FOUND"]
            /\ UNCHANGED departments
       ELSE /\ ret' = [op |-> "departmentService.create", data |-> data, id |-> id,
                       result |-> "success"]
            /\ departments' =
                 [d \in DOMAIN departments \cup {id} |->
                    IF d = id
                    THEN [id |-> id, name |-> data.name,
                          parentId |-> IF data.parentId = Undef THEN Null ELSE data.parentId]
                    ELSE departments[d]]

\* departmentService.update; prisma leaves the columns of undefined fields
\* alone
UpdateDepartment ==
  \E id \in AllDeptIds, data \in UpdateDepartmentInputs :
    /\ Idle
    /\ ops < MaxOps
    /\ ops' = ops + 1
    /\ data.parentId \in {Undef, Null} \cup DOMAIN departments
    /\ UNCHANGED <<permissions, roles, rolePermissions, userRoles, nextId, users, now, calls>>
    /\ IF id \notin DOMAIN departments
       THEN /\ ret' = [op |-> "departmentService.update", id |-> id, data |-> data,
                       result |-> "DEPARTMENT_NOT_FOUND"]
            /\ UNCHANGED departments
       ELSE IF /\ data.name # Undef /\ data.name # departments[id].name
               /\ \E d \in DOMAIN departments : departments[d].name = data.name
       THEN /\ ret' = [op |-> "departmentService.update", id |-> id, data |-> data,
                       result |-> "DUPLICATE_NAME"]
            /\ UNCHANGED departments
       ELSE IF data.parentId = id
       THEN /\ ret' = [op |-> "departmentService.update", id |-> id, data |-> data,
                       result |-> "CIRCULAR_REFERENCE"]
            /\ UNCHANGED departments
       ELSE /\ ret' = [op |-> "departmentService.update", id |-> id, data |-> data,
                       result |-> "success"]
            /\ departments' =
                 [departments EXCEPT
                    ![id].name = IF data.name = Undef THEN @ ELSE data.name,
                    ![id].parentId = IF data.parentId = Undef THEN @ ELSE data.parentId]

\* departmentRepository.countUsers and hasChildren
countUsers(departmentId) == Cardinality({u \in Users : userDepartmentId[u] = departmentId})
hasChildren(departmentId) ==
  \E d \in DOMAIN departments : departments[d].parentId = departmentId

\* departmentService.delete; the assignments scoped to the department lose
\* their department (user_roles_department_id_fkey, ON DELETE SET NULL)
DeleteDepartment ==
  \E id \in AllDeptIds :
    /\ Idle
    /\ ops < MaxOps
    /\ ops' = ops + 1
    /\ UNCHANGED <<permissions, roles, rolePermissions, nextId, users, now, calls>>
    /\ IF id \notin DOMAIN departments
       THEN /\ ret' = [op |-> "departmentService.delete", id |-> id,
                       result |-> "DEPARTMENT_NOT_FOUND"]
            /\ UNCHANGED <<departments, userRoles>>
       ELSE IF countUsers(id) > 0
       THEN /\ ret' = [op |-> "departmentService.delete", id |-> id,
                       result |-> "HAS_USERS"]
            /\ UNCHANGED <<departments, userRoles>>
       ELSE IF hasChildren(id)
       THEN /\ ret' = [op |-> "departmentService.delete", id |-> id,
                       result |-> "HAS_CHILDREN"]
            /\ UNCHANGED <<departments, userRoles>>
       ELSE /\ ret' = [op |-> "departmentService.delete", id |-> id,
                       result |-> "success"]
            /\ departments' = [d \in DOMAIN departments \ {id} |-> departments[d]]
            /\ userRoles' = {IF ur.departmentId = id
                               THEN [ur EXCEPT !.departmentId = Null] ELSE ur :
                             ur \in userRoles}

\* Sign-in. userRepository.findByKeycloakId: the user of the account, if any
findByKeycloakId(table, keycloakId) ==
  {table[u] : u \in {x \in DOMAIN table : table[x].keycloakId = keycloakId}}

\* userService.handleLogin on the table: the result code and the table it
\* leaves
handleLogin(table, keycloakId) ==
  LET found == findByKeycloakId(table, keycloakId)
  IN IF found = {}
     THEN [code |-> "USER_NOT_FOUND", users |-> table]
     ELSE LET user == CHOOSE row \in found : TRUE
          IN IF user.status # "ACTIVE"
             THEN [code |-> "USER_INACTIVE", users |-> table]
             ELSE [code |-> "success",
                   users |-> [table EXCEPT ![user.id].lastLoginAt = Date(now)]]

\* the id a user created at sign-in gets
NewUserId == "u2"

\* userService.syncFromKeycloak for a profile without a department: the user
\* of the account, created with status ACTIVE when there is none; the update
\* of an existing user writes profile fields only
syncFromKeycloak(keycloakId) ==
  LET found == findByKeycloakId(users, keycloakId)
  IN IF found # {}
     THEN [userId |-> (CHOOSE row \in found : TRUE).id, created |-> FALSE, users |-> users]
     ELSE [userId |-> NewUserId, created |-> TRUE,
           users |-> [u \in DOMAIN users \cup {NewUserId} |->
                        IF u = NewUserId
                        THEN [id |-> NewUserId, keycloakId |-> keycloakId,
                              status |-> "ACTIVE", lastLoginAt |-> NoDate]
                        ELSE users[u]]]

\* the assignment of the role employee to a user created at sign-in
employeeRoleAssigned(userId) ==
  LET employeeRoles == {r \in DOMAIN roles : roles[r].code = "employee"}
  IN IF employeeRoles = {} THEN userRoles
     ELSE assignCreate([userId |-> userId, roleId |-> CHOOSE r \in employeeRoles : TRUE,
                        departmentId |-> Undef, expiresAt |-> NoDate])

\* userService.changeStatus
ChangeStatus ==
  \E userId \in Users, newStatus \in UserStatus :
    /\ Idle
    /\ ops < MaxOps
    /\ ops' = ops + 1
    /\ UNCHANGED <<permissions, roles, rolePermissions, userRoles, departments, nextId, now,
                   calls>>
    /\ IF userId \notin DOMAIN users
       THEN /\ ret' = [op |-> "changeStatus", userId |-> userId, result |-> "USER_NOT_FOUND"]
            /\ UNCHANGED users
       ELSE /\ ret' = [op |-> "changeStatus", userId |-> userId, result |-> "success"]
            /\ users' = [users EXCEPT ![userId].status = newStatus]

\* a call of userService.handleLogin; user is what findByKeycloakId returned
HandleLogin ==
  \E keycloakId \in KeycloakIds :
    /\ Idle
    /\ ops < MaxOps
    /\ ops' = ops + 1
    /\ UNCHANGED <<permissions, roles, rolePermissions, userRoles, departments, nextId, now,
                   calls>>
    /\ users' = handleLogin(users, keycloakId).users
    /\ ret' = [op |-> "handleLogin", keycloakId |-> keycloakId,
               user |-> findByKeycloakId(users, keycloakId),
               result |-> handleLogin(users, keycloakId).code]

\* the jwt callback at the initial sign-in with the profile of a Keycloak
\* account (sub missing: toKeycloakUserProfile returns null): authEvents.onSignIn
\* syncs the user, calls handleLogin and returns the id of the synced user
\* whatever handleLogin answered; the callback puts it into the token
Jwt ==
  \E sub \in KeycloakIds \cup {Undef} :
    /\ Idle
    /\ ops < MaxOps
    /\ ops' = ops + 1
    /\ UNCHANGED <<permissions, roles, rolePermissions, departments, now, calls>>
    /\ IF sub = Undef
       THEN /\ ret' = [op |-> "jwt", sub |-> sub, token |-> [dbUserId |-> <<>>]]
            /\ UNCHANGED <<users, userRoles, nextId>>
       ELSE LET synced == syncFromKeycloak(sub)
                login == handleLogin(synced.users, sub)
            IN /\ users' = login.users
               /\ IF synced.created /\ employeeRoleAssigned(synced.userId) # userRoles
                  THEN userRoles' = employeeRoleAssigned(synced.userId) /\ nextId' = nextId + 1
                  ELSE UNCHANGED <<userRoles, nextId>>
               /\ ret' = [op |-> "jwt", sub |-> sub, handleLogin |-> login.code,
                          token |-> [keycloakId |-> sub, dbUserId |-> <<synced.userId>>]]

\* sign-ins while an administrator changes the status of users and time
\* passes
NextSignIn ==
  \/ ChangeStatus
  \/ HandleLogin
  \/ Jwt
  \/ Tick

SpecSignIn == Init /\ [][NextSignIn]_vars

\* The decision as a function of the permissions held: two calls of
\* checkPermission for one request, the first on a set of permissions of the
\* catalog in some order of enumeration, the second on a set that includes
\* the first, in some order. The department of a request selects the
\* assignments and has no part in the decision on a given list.
EvaluationRequests == {request \in Requests : request.targetDepartmentId = Undef}
\* the sets of at most MaxHeld permissions of the catalog
HeldSets == {S \in SUBSET DOMAIN permissions : Cardinality(S) <= MaxHeld}
First == "c1"
Second == "c2"

\* caller c gets idList from getAllUserPermissions and checkPermission
\* decides on it
Evaluate(c, request, idList) ==
  /\ calls[c].pc = "idle"
  /\ calls' = [calls EXCEPT
                 ![c] = [pc |-> "evaluated", request |-> request,
                         permissions |-> {idList[i] : i \in 1..Len(idList)},
                         result |-> checkPermission(request, permissionRows(idList))]]
  /\ UNCHANGED <<store, now, ops, ret>>

EvaluateFirst ==
  \E request \in EvaluationRequests, S \in HeldSets :
    \E idList \in Orderings(S) : Evaluate(First, request, idList)

EvaluateSecond ==
  /\ calls[First].pc = "evaluated"
  /\ \E T \in HeldSets :
       /\ calls[First].permissions \subseteq T
       /\ \E idList \in Orderings(T) : Evaluate(Second, calls[First].request, idList)

NextEvaluate == EvaluateFirst \/ EvaluateSecond

SpecEvaluate == Init /\ [][NextEvaluate]_vars

\* a store that holds one assignment, made at time 0 by an earlier call of
\* assignRole
InitAssigned ==
  /\ permissions = DEFAULT_PERMISSIONS
  /\ roles = DEFAULT_ROLES
  /\ departments = DEFAULT_DEPARTMENTS
  /\ users = DEFAULT_USERS
  /\ rolePermissions = assignDefaultRolePermissions
  /\ \E data \in AssignInputs :
       userRoles =
         {[id |-> Cardinality(ROLE_PERMISSIONS) + 1, userId |-> data.userId,
           roleId |-> data.roleId,
           departmentId |-> IF data.departmentId = Undef THEN Null ELSE data.departmentId,
           isActive |-> TRUE, expiresAt |-> data.expiresAt, assignedAt |-> 0]}
  /\ nextId = Cardinality(ROLE_PERMISSIONS) + 2
  /\ now = 0
  /\ ops = 0
  /\ ret = [op |-> "none"]
  /\ calls = [c \in Callers |-> [pc |-> "idle"]]

NextAssignments ==
  \/ Continue
  \/ AssignRole
  \/ RevokeRole
  \/ GetEffectivePermissions
  \/ Tick

\* the administration of assignments, one call after the other, on a store
\* that holds an assignment
SpecAssignments == InitAssigned /\ [][NextAssignments]_vars

\* the administration of departments, while roles are assigned, on a store
\* that holds an assignment
NextDepartments ==
  \/ CreateDepartment
  \/ UpdateDepartment
  \/ DeleteDepartment
  \/ AssignRole

SpecDepartments == InitAssigned /\ [][NextDepartments]_vars

\* ------------------------------------------------------------------------
\* assignRole by concurrent callers: findFirst and the write are steps of
\* their own
\* ------------------------------------------------------------------------
\* the unique index user_roles(user_id, role_id, department_id) rejects the
\* insert: a row with the same three values exists. A NULL department_id is
\* equal to no value, itself included.
userRolesIndexRejects(data) ==
  \E ur \in userRoles :
    /\ ur.userId = data.userId /\ ur.roleId = data.roleId
    /\ data.departmentId # Undef /\ ur.departmentId = data.departmentId

\* assignRole up to the answer of findFirst: the checks of the role, then the
\* lookup of the triple
AssignFind(c) ==
  \E data \in AssignInputs :
    /\ calls[c].pc \in {"idle", "done"}
    /\ ops < MaxOps
    /\ ops' = ops + 1
    /\ calls' = [calls EXCEPT ![c] =
         IF data.roleId \notin DOMAIN roles
         THEN [pc |-> "done", op |-> "assignRole", data |-> data, result |-> "ROLE_NOT_FOUND"]
         ELSE IF ~roles[data.roleId].isActive
         THEN [pc |-> "done", op |-> "assignRole", data |-> data, result |-> "INACTIVE_ROLE"]
         ELSE [pc |-> "write", op |-> "assignRole", data |-> data,
               existing |-> {ur \in userRoles :
                               matchesTriple(ur, data.userId, data.roleId,
                                             data.departmentId)}]]
    /\ UNCHANGED <<store, now, ret>>

\* the write of assign: the update of the row findFirst returned, by its id,
\* or the insert, which throws when the unique index rejects it
AssignWrite(c) ==
  /\ calls[c].pc = "write"
  /\ UNCHANGED <<permissions, roles, rolePermissions, departments, users, now, ops, ret>>
  /\ IF calls[c].existing # {}
     THEN /\ \E existing \in calls[c].existing : \E row \in userRoles :
               /\ row.id = existing.id
               /\ userRoles' = assignUpdate(row, calls[c].data)
          /\ UNCHANGED nextId
          /\ calls' = [calls EXCEPT ![c] =
               [pc |-> "done", op |-> "assignRole", data |-> calls[c].data,
                result |-> "success"]]
     ELSE IF userRolesIndexRejects(calls[c].data)
     THEN /\ UNCHANGED <<userRoles, nextId>>
          /\ calls' = [calls EXCEPT ![c] =
               [pc |-> "done", op |-> "assignRole", data |-> calls[c].data,
                result |-> "throws"]]
     ELSE /\ userRoles' = assignCreate(calls[c].data)
          /\ nextId' = nextId + 1
          /\ calls' = [calls EXCEPT ![c] =
               [pc |-> "done", op |-> "assignRole", data |-> calls[c].data,
                result |-> "success"]]

NextConcurrentAssign ==
  \/ \E c \in Callers : AssignFind(c)
  \/ \E c \in Callers : AssignWrite(c)

\* two administrators assign roles at the same time
SpecConcurrentAssign == Init /\ [][NextConcurrentAssign]_vars

\* ------------------------------------------------------------------------
\* Properties
\* ------------------------------------------------------------------------
IsCheck == ret.op = "checkPermission"

\* the permissions of the evaluated set that match the request exactly, and
\* its MANAGE permissions on the requested resource
ExactMatches ==
  {p \in ret.permissions : /\ permissions[p].resource = ret.request.resource
                           /\ permissions[p].action = ret.request.action}
ManageMatches ==
  {p \in ret.permissions : /\ permissions[p].resource = ret.request.resource
                           /\ permissions[p].action = "MANAGE"}

\* the strict order of the scopes: ALL > DEPARTMENT > OWN
Broader(a, b) ==
  <<a, b>> \in {<<"ALL", "DEPARTMENT">>, <<"ALL", "OWN">>, <<"DEPARTMENT", "OWN">>}
\* the broadest scope among a non-empty set of permissions
BroadestScope(S) ==
  CHOOSE sc \in {permissions[p].scope : p \in S} :
    \A p \in S : ~Broader(permissions[p].scope, sc)

\* the result carries the optional field
Has(field) == field \in DOMAIN ret.result

OwnerConflict ==
  ret.request.targetOwnerId # Undef /\ ret.request.targetOwnerId # ret.request.userId

\* C1: when the evaluated set holds an exact match, checkPermission denies
\* if and only if the broadest exact match is OWN and a targetOwnerId other
\* than userId was given.
C1_ExactMatchDeniedIffOwnConflict ==
  (IsCheck /\ ExactMatches # {}) =>
     (ret.result.allowed = FALSE <=> (BroadestScope(ExactMatches) = "OWN" /\ OwnerConflict))

C1_Witness ==
  /\ IsCheck /\ ExactMatches # {}
  /\ BroadestScope(ExactMatches) = "OWN" /\ OwnerConflict
  /\ ret.result.allowed = FALSE

\* C2: with a MANAGE permission on the resource and no exact match,
\* checkPermission allows and reports a MANAGE permission of the set on that
\* resource, with its scope as the effective scope.
C2_ManageWildcardAllows ==
  (IsCheck /\ ExactMatches = {} /\ ManageMatches # {}) =>
     /\ ret.result.allowed = TRUE
     /\ Has("matchedPermission") /\ Has("effectiveScope")
     /\ ret.result.matchedPermission.id \in ManageMatches
     /\ ret.result.matchedPermission = permissions[ret.result.matchedPermission.id]
     /\ ret.result.effectiveScope = ret.result.matchedPermission.scope

C2_Witness ==
  /\ IsCheck /\ ExactMatches = {} /\ ManageMatches # {}
  /\ ret.request.action = "DELETE"
  /\ ret.result.allowed = TRUE
  /\ ret.result.matchedPermission.action = "MANAGE"

\* C3: the OWN check applies to a permission matched through MANAGE as well:
\* with no exact match and only OWN-scoped MANAGE permissions on the resource,
\* a targetOwnerId other than userId is denied.
C3_OwnCheckOnManageMatch ==
  (/\ IsCheck /\ ExactMatches = {} /\ ManageMatches # {}
   /\ \A p \in ManageMatches : permissions[p].scope = "OWN"
   /\ OwnerConflict)
    => ret.result.allowed = FALSE

\* C4: with exact matches, the reported permission is an exact match and its
\* scope, the effective scope, is the broadest among them.
C4_BroadestScopeSelected ==
  (IsCheck /\ ExactMatches # {}) =>
     /\ Has("matchedPermission") /\ Has("effectiveScope")
     /\ ret.result.matchedPermission.id \in ExactMatches
     /\ ret.result.matchedPermission.scope = BroadestScope(ExactMatches)
     /\ ret.result.effectiveScope = BroadestScope(ExactMatches)

\* (R, A, OWN) through one role and (R, A, ALL) through another
C4_Witness ==
  /\ IsCheck
  /\ \E p, q \in ExactMatches : \E a, b \in userRoles :
        /\ permissions[p].scope = "OWN" /\ permissions[q].scope = "ALL"
        /\ a.roleId # b.roleId
        /\ Granted(a.roleId, p) /\ ~Granted(a.roleId, q)
        /\ Granted(b.roleId, q) /\ ~Granted(b.roleId, p)
  /\ ret.result.effectiveScope = "ALL"
  /\ ret.result.allowed = TRUE

\* an assignment whose expiresAt is not later than the evaluation time
Expired(ur) == ur.expiresAt # NoDate /\ ur.expiresAt[1] <= now
\* an active assignment of the user to an existing, active role
Usable(ur, userId) ==
  /\ ur.userId = userId /\ ur.isActive
  /\ ur.roleId \in DOMAIN roles /\ roles[ur.roleId].isActive
\* the active permissions granted to a role
GrantedActive(roleId) ==
  {p \in DOMAIN permissions : Granted(roleId, p) /\ permissions[p].isActive}
\* the permission answers a request for (resource, action): the same resource
\* and that action or MANAGE
Answers(p, resource, action) ==
  /\ permissions[p].resource = resource
  /\ permissions[p].action \in {action, "MANAGE"}
\* the canonical code of a requested pair
PairCode(pair) ==
  CASE pair = <<"USER", "READ">> -> "user:read"
    [] pair = <<"USER", "DELETE">> -> "user:delete"
    [] pair = <<"EXPENSE_CLAIM", "APPROVE">> -> "expense_claim:approve"
\* the elements of a list
Elements(list) == {list[i] : i \in 1..Len(list)}

\* some assignment of the user that has not expired grants the permission
ThroughUnexpired(userId, p) ==
  \E ur \in userRoles :
    ur.userId = userId /\ ~Expired(ur) /\ Granted(ur.roleId, p)

\* C5: an expired assignment contributes no permission to checkPermission,
\* checkPermissions or getEffectivePermissions, with or without a
\* targetDepartmentId; an unexpired active assignment to an active role (in
\* the scope of the request) contributes the active permissions of its role.
C5_ExpiryDecidesContribution ==
  /\ ret.op \in {"checkPermission", "checkPermissions"} =>
       \A p \in ret.permissions :
         ThroughUnexpired(IF IsCheck THEN ret.request.userId ELSE ret.userId, p)
  /\ (IsCheck /\ ret.result.allowed) =>
       ThroughUnexpired(ret.request.userId, ret.result.matchedPermission.id)
  /\ ret.op = "checkPermissions" =>
       \A i \in 1..Len(ret.checks) :
         ret.result[PairCode(ret.checks[i])] =>
           \E p \in DOMAIN permissions :
             /\ Answers(p, ret.checks[i][1], ret.checks[i][2])
             /\ ThroughUnexpired(ret.userId, p)
  /\ ret.op = "getEffectivePermissions" =>
       /\ \A p \in Elements(ret.result.permissions) : ThroughUnexpired(ret.userId, p)
       /\ \A r \in Elements(ret.result.roles) :
            \E ur \in userRoles : ur.userId = ret.userId /\ ur.roleId = r /\ ~Expired(ur)
  /\ IsCheck =>
       \A ur \in userRoles :
         (/\ Usable(ur, ret.request.userId) /\ ~Expired(ur)
          /\ ur.departmentId \in {Null, ret.request.targetDepartmentId})
           => GrantedActive(ur.roleId) \subseteq ret.permissions
  /\ ret.op = "checkPermissions" =>
       \A ur \in userRoles :
         (Usable(ur, ret.userId) /\ ~Expired(ur))
           => /\ GrantedActive(ur.roleId) \subseteq ret.permissions
              /\ \A i \in 1..Len(ret.checks) :
                   (\E p \in GrantedActive(ur.roleId) :
                       Answers(p, ret.checks[i][1], ret.checks[i][2]))
                     => ret.result[PairCode(ret.checks[i])]
  /\ ret.op = "getEffectivePermissions" =>
       \A ur \in userRoles :
         (Usable(ur, ret.userId) /\ ~Expired(ur))
           => GrantedActive(ur.roleId) \subseteq Elements(ret.result.permissions)

\* an active assignment in the scope of the request has expired, its role
\* grants the requested pair, and the check (with a department) is denied
C5_Witness ==
  /\ IsCheck
  /\ ret.request.targetDepartmentId # Undef
  /\ ret.result.allowed = FALSE
  /\ \E ur \in userRoles :
       /\ Usable(ur, ret.request.userId) /\ Expired(ur)
       /\ ur.departmentId \in {Null, ret.request.targetDepartmentId}
       /\ \E p \in GrantedActive(ur.roleId) :
            Answers(p, ret.request.resource, ret.request.action)

\* the assignments in force for a check with targetDepartmentId = D: the
\* effective global ones and the effective ones scoped to D
InForce(userId, D) ==
  {ur \in userRoles : /\ Usable(ur, userId) /\ ~Expired(ur)
                      /\ ur.departmentId \in {Null, D}}
UnionOfGrants(rows) == UNION {GrantedActive(ur.roleId) : ur \in rows}

\* C6: with targetDepartmentId = D, checkPermission evaluates exactly the
\* permissions of the effective global assignments and of those scoped to D;
\* a pair granted only through another department is denied, an exact match
\* granted in D (without an ownership conflict) is allowed.
C6_DepartmentUnion ==
  (IsCheck /\ ret.request.targetDepartmentId \in Depts) =>
     LET S == UnionOfGrants(InForce(ret.request.userId, ret.request.targetDepartmentId))
     IN /\ ret.permissions = S
        /\ (\A p \in S : ~Answers(p, ret.request.resource, ret.request.action))
             => ret.result.allowed = FALSE
        /\ ((\E p \in S : Answers(p, ret.request.resource, ret.request.action))
              /\ ~OwnerConflict)
             => ret.result.allowed = TRUE

\* the only grant of the pair is through an assignment scoped to d1, and the
\* check for d2 is denied
C6_Witness ==
  /\ IsCheck
  /\ ret.request.targetDepartmentId = "d2"
  /\ ret.result.allowed = FALSE
  /\ \E ur \in userRoles :
       /\ Usable(ur, ret.request.userId) /\ ~Expired(ur) /\ ur.departmentId = "d1"
       /\ \E p \in GrantedActive(ur.roleId) :
            Answers(p, ret.request.resource, ret.request.action)

\* C7: a user with a global assignment and a department-scoped one, checked
\* with no targetDepartmentId, is denied every pair that no global assignment
\* grants.
C7_NoDepartmentOnlyGlobal ==
  (/\ IsCheck /\ ret.request.targetDepartmentId = Undef
   /\ InForce(ret.request.userId, Null) # {}
   /\ \E ur \in userRoles :
        Usable(ur, ret.request.userId) /\ ~Expired(ur) /\ ur.departmentId \in Depts
   /\ \A p \in UnionOfGrants(InForce(ret.request.userId, Null)) :
        ~Answers(p, ret.request.resource, ret.request.action))
    => ret.result.allowed = FALSE

\* C8: hasRole is true if and only if an effective assignment (active, not
\* expired) of the user to an active role with that code exists that is global
\* or scoped to the department asked for (any scope when none is asked for);
\* an expired assignment never makes it true.
C8_HasRoleIffEffective ==
  ret.op = "hasRole" =>
    (ret.result <=>
       \E ur \in userRoles :
         /\ Usable(ur, ret.userId) /\ ~Expired(ur)
         /\ roles[ur.roleId].code = ret.roleCode
         /\ (ret.departmentId = Undef \/ ur.departmentId \in {Null, ret.departmentId}))

\* C9: checkPermission always returns a result; with neither an exact match
\* nor a MANAGE permission on the resource it is a denial whose reason names
\* the lower-cased pair, and every denial carries a non-empty reason.
C9_DenialIsAValueWithReason ==
  IsCheck =>
    /\ ret.result.allowed \in BOOLEAN
    /\ (ExactMatches = {} /\ ManageMatches = {}) =>
         /\ ret.result.allowed = FALSE
         /\ Has("reason")
         /\ ret.result.reason =
              "No permission for " \o PairCode(<<ret.request.resource, ret.request.action>>)
    /\ ret.result.allowed = FALSE => (Has("reason") /\ ret.result.reason # "")

\* a user with no assignment at all is denied, the reason citing the pair
C9_Witness ==
  /\ IsCheck
  /\ userRoles = {}
  /\ ret.result.allowed = FALSE
  /\ ret.result.reason = "No permission for expense_claim:approve"

\* some active assignment of the user to an active role grants the active
\* permission
ThroughActive(userId, p) ==
  /\ p \in DOMAIN permissions /\ permissions[p].isActive
  /\ \E ur \in userRoles : Usable(ur, userId) /\ Granted(ur.roleId, p)

\* C10: every decision rests on the store as it is at the call: on an active
\* assignment, an active role, a grant that exists and an active permission.
\* Nothing revoked or deactivated before the call enters a result.
C10_DecisionsFromCurrentStore ==
  /\ IsCheck =>
       /\ \A p \in ret.permissions : ThroughActive(ret.request.userId, p)
       /\ ret.result.allowed => ThroughActive(ret.request.userId, ret.result.matchedPermission.id)
  /\ ret.op = "checkPermissions" =>
       \A i \in 1..Len(ret.checks) :
         ret.result[PairCode(ret.checks[i])] =>
           \E p \in DOMAIN permissions :
             /\ Answers(p, ret.checks[i][1], ret.checks[i][2])
             /\ ThroughActive(ret.userId, p)
  /\ (ret.op = "hasRole" /\ ret.result) =>
       \E ur \in userRoles : Usable(ur, ret.userId) /\ roles[ur.roleId].code = ret.roleCode

\* the pair was granted through an assignment that has been revoked, and the
\* check made afterwards is denied
C10_Witness ==
  /\ IsCheck
  /\ ret.result.allowed = FALSE
  /\ \E ur \in userRoles :
       /\ ur.userId = ret.request.userId /\ ~ur.isActive /\ ~Expired(ur)
       /\ roles[ur.roleId].isActive
       /\ \E p \in GrantedActive(ur.roleId) :
            Answers(p, ret.request.resource, ret.request.action)

\* the effective assignments of the user, of every scope
EffectiveAssignments(userId) ==
  {ur \in userRoles : Usable(ur, userId) /\ ~Expired(ur)}

\* C11: checkPermissions evaluates the permissions of all the effective
\* assignments of the user (global and of every department) and maps the key
\* lower(resource):lower(action) of each requested pair to TRUE exactly when
\* that set holds a permission on the resource with that action or MANAGE,
\* whatever its scope.
C11_BatchIsCoarse ==
  ret.op = "checkPermissions" =>
    /\ ret.permissions = UnionOfGrants(EffectiveAssignments(ret.userId))
    /\ DOMAIN ret.result = {PairCode(ret.checks[i]) : i \in 1..Len(ret.checks)}
    /\ \A i \in 1..Len(ret.checks) :
         ret.result[PairCode(ret.checks[i])] <=>
           \E p \in ret.permissions : Answers(p, ret.checks[i][1], ret.checks[i][2])

\* the only assignment of the user is scoped to a department, the pair is
\* backed by OWN-scoped permissions only, and it is reported true
C11_Witness ==
  /\ ret.op = "checkPermissions"
  /\ EffectiveAssignments(ret.userId) # {}
  /\ \A ur \in EffectiveAssignments(ret.userId) : ur.departmentId \in Depts
  /\ \E i \in 1..Len(ret.checks) :
       /\ ret.result[PairCode(ret.checks[i])] = TRUE
       /\ \A p \in ret.permissions :
            Answers(p, ret.checks[i][1], ret.checks[i][2]) => permissions[p].scope = "OWN"

\* the call of the administrator that replaces a grant set
Replacement == calls[Replacer]
NewSet == Elements(Replacement.data.permissionIds)
\* the grant set of a role as the table holds it
GrantSet(roleId) == {rp.permissionId : rp \in {x \in rolePermissions : x.roleId = roleId}}
\* the permissions a check of the request evaluates when the role under
\* replacement has the grant set G and the other roles have their own
EvaluatedWith(request, G) ==
  UNION {IF ur.roleId = Replacement.data.roleId
           THEN {p \in G : p \in DOMAIN permissions /\ permissions[p].isActive}
           ELSE GrantedActive(ur.roleId) :
         ur \in IF request.targetDepartmentId = Undef
                THEN EffectiveAssignments(request.userId)
                ELSE InForce(request.userId, request.targetDepartmentId)}

\* C12: while setPermissions(role, newSet) is under way, a read of the grant
\* set of the role returns the complete old set or newSet, and a permission
\* check evaluates the permissions that follow from one of the two; once the
\* call has succeeded the grant set of the role is exactly newSet.
C12_ReplaceIsAtomic ==
  /\ (UnderWay(Replacer) /\ ret.op = "getPermissions"
        /\ ret.roleId = Replacement.data.roleId)
       => ret.result \in {Replacement.before, NewSet}
  /\ (UnderWay(Replacer) /\ IsCheck)
       => ret.permissions \in {EvaluatedWith(ret.request, Replacement.before),
                               EvaluatedWith(ret.request, NewSet)}
  /\ (Replacement.pc = "done" /\ Replacement.result = "success")
       => GrantSet(Replacement.data.roleId) = NewSet

\* the call is between its two statements, replacing a non-empty grant set by
\* another non-empty one, and the reader holds the complete old set
C12_Witness ==
  /\ Replacement.pc = "createMany"
  /\ Replacement.deleted # {}
  /\ NewSet # {} /\ Replacement.before # {} /\ NewSet # Replacement.before
  /\ ret.op = "getPermissions" /\ ret.roleId = Replacement.data.roleId
  /\ ret.result = Replacement.before

\* the grant rows of a role
GrantRows(table, roleId) == {rp \in table : rp.roleId = roleId}

\* C13: a call of setPermissions that fails (the role is not found, or the
\* insert is rejected) leaves the grant rows of the role as they were.
C13_FailedReplaceChangesNothing ==
  [][(ops' = ops + 1 /\ ret'.op = "setPermissions" /\ ret'.result # "success")
       => GrantRows(rolePermissions', ret'.data.roleId)
            = GrantRows(rolePermissions, ret'.data.roleId)]_vars

\* setPermissions with an id twice has thrown and the role still has grants
C13_Witness ==
  /\ ret.op = "setPermissions"
  /\ ret.result = "throws"
  /\ ret.data.permissionIds = <<"p5", "p5">>
  /\ GrantRows(rolePermissions, ret.data.roleId) # {}

\* the rows of the pair (role, permission)
PairRows(table, roleId, permissionId) ==
  {rp \in table : rp.roleId = roleId /\ rp.permissionId = permissionId}

\* C14: through every sequence of grantPermission, revokePermission and
\* setPermissions a pair (role, permission) has at most one grant row, and
\* granting a pair that has a row succeeds and leaves the table, that row and
\* its grantedById included, as it was.
C14_GrantIsIdempotent ==
  /\ [](\A a, b \in rolePermissions :
          (a.roleId = b.roleId /\ a.permissionId = b.permissionId) => a = b)
  /\ [][(/\ ops' = ops + 1 /\ ret'.op = "grantPermission"
         /\ PairRows(rolePermissions, ret'.data.roleId, ret'.data.permissionId) # {})
          => (ret'.result = "success" /\ rolePermissions' = rolePermissions)]_vars

\* a pair the seed granted (by nobody) has been granted again by an
\* administrator: one row, still granted by nobody
C14_Witness ==
  /\ ret.op = "grantPermission" /\ ret.result = "success"
  /\ ret.data.grantedById \in Granters
  /\ \E rp \in rolePermissions :
       /\ PairRows(rolePermissions, ret.data.roleId, ret.data.permissionId) = {rp}
       /\ rp.grantedById = Null
       /\ rp.id <= Cardinality(ROLE_PERMISSIONS)

\* the rows of the triple (user, role, department); no department is the
\* global key
TripleRows(table, userId, roleId, departmentId) ==
  {ur \in table : /\ ur.userId = userId /\ ur.roleId = roleId
                  /\ ur.departmentId = (IF departmentId = Undef THEN Null ELSE departmentId)}
AssignedTriple ==
  TripleRows(userRoles, ret.data.userId, ret.data.roleId, ret.data.departmentId)

\* C15: through every sequence of assign and revoke calls a triple (user,
\* role, department) has at most one row; an assignment that succeeds leaves
\* exactly one row for its triple, active and with assignedAt the time of the
\* call, and when the triple had a row (a revoked one as well) it is that row.
C15_OneRowPerTriple ==
  /\ \A a, b \in userRoles :
       (a.userId = b.userId /\ a.roleId = b.roleId /\ a.departmentId = b.departmentId)
         => a = b
  /\ (ret.op = "assignRole" /\ ret.result = "success") =>
       /\ Cardinality(AssignedTriple) = 1
       /\ \A ur \in AssignedTriple :
            /\ ur.isActive /\ ur.assignedAt = now
            /\ ret.found # {} => ur.id \in {x.id : x \in ret.found}

\* the triple was assigned at time 0 and revoked; assigned again at time 1 it
\* has its one row, active, with assignedAt 1
C15_Witness ==
  /\ ret.op = "assignRole" /\ ret.result = "success"
  /\ \E old \in ret.found : ~old.isActive /\ old.assignedAt = 0
  /\ now = 1
  /\ \E ur \in userRoles : AssignedTriple = {ur} /\ ur.isActive /\ ur.assignedAt = 1

\* C16: whatever the interleaving of concurrent assign calls, no triple
\* (user, role, department), the global one included, ends up with two rows.
C16_UniqueUnderConcurrency ==
  \A a, b \in userRoles :
    (/\ a.userId = b.userId /\ a.roleId = b.roleId /\ a.departmentId = b.departmentId
     /\ \A c \in Callers : calls[c].pc # "write")
      => a.id = b.id

\* C17: an assignment that finds a row for its triple leaves that row active
\* and with the expiresAt of the call: no expiry when the call gives none.
C17_ReassignOverwritesExpiry ==
  (ret.op = "assignRole" /\ ret.result = "success" /\ ret.found # {}) =>
    \A ur \in AssignedTriple : ur.isActive /\ ur.expiresAt = ret.data.expiresAt

\* C18: revoke succeeds, whether or not a row matches; it clears isActive on
\* the rows of the triple (the global row when no department is given) and
\* changes no other row; applied again it changes nothing.
C18_RevokeExactlyTheTriple ==
  [][(ops' = ops + 1 /\ ret'.op = "revokeRole") =>
       /\ ret'.result = "success"
       /\ userRoles' =
            {IF ur \in TripleRows(userRoles, ret'.userId, ret'.roleId, ret'.departmentId)
               THEN [ur EXCEPT !.isActive = FALSE] ELSE ur : ur \in userRoles}
       /\ \A ur \in TripleRows(userRoles', ret'.userId, ret'.roleId, ret'.departmentId) :
            ~ur.isActive]_vars

\* the global assignment of a role has been revoked and the assignment of the
\* same role scoped to a department is still active
C18_Witness ==
  /\ ret.op = "revokeRole" /\ ret.departmentId = Undef
  /\ \E g, d \in userRoles :
       /\ g.userId = ret.userId /\ g.roleId = ret.roleId /\ g.departmentId = Null
       /\ ~g.isActive
       /\ d.userId = ret.userId /\ d.roleId = ret.roleId /\ d.departmentId \in Depts
       /\ d.isActive

\* the call the step makes is an attempt to deactivate or to delete an entry
\* of the table that is flagged isSystem
AttemptOnSystem(service, table) ==
  /\ ops' = ops + 1
  /\ \/ ret'.op \in {service \o ".deactivate", service \o ".delete"}
     \/ ret'.op = service \o ".update" /\ ret'.data.isActive = <<FALSE>>
  /\ ret'.id \in DOMAIN table
  /\ table[ret'.id].isSystem

\* C19: through every sequence of calls of permissionService and roleService
\* each permission and each role flagged isSystem exists and is active, and
\* an attempt to deactivate or to delete one returns SYSTEM_PERMISSION or
\* SYSTEM_ROLE and changes nothing in the store.
C19_SystemEntriesProtected ==
  /\ [](\A p \in PermIds :
          DEFAULT_PERMISSIONS[p].isSystem =>
            (p \in DOMAIN permissions /\ permissions[p].isSystem /\ permissions[p].isActive))
  /\ [](\A r \in RoleIds :
          DEFAULT_ROLES[r].isSystem =>
            (r \in DOMAIN roles /\ roles[r].isSystem /\ roles[r].isActive))
  /\ [][AttemptOnSystem("permissionService", permissions)
          => (ret'.result = "SYSTEM_PERMISSION" /\ UNCHANGED store)]_vars
  /\ [][AttemptOnSystem("roleService", roles)
          => (ret'.result = "SYSTEM_ROLE" /\ UNCHANGED store)]_vars

\* the role that is not flagged has been deleted, and the delete of the
\* system role is answered by SYSTEM_ROLE
C19_Witness ==
  /\ ret.op = "roleService.delete" /\ ret.result = "SYSTEM_ROLE"
  /\ ret.id \in DOMAIN roles /\ roles[ret.id].isSystem /\ roles[ret.id].isActive
  /\ \E r \in RoleIds : r \notin DOMAIN roles

\* the list holds no element twice
NoDuplicates(list) == \A i, j \in 1..Len(list) : list[i] = list[j] => i = j

\* C20: the snapshot getEffectivePermissions returns lists each role and each
\* permission once; its roles are the roles of the effective assignments of
\* the user of every scope, its permissions the active permissions granted to
\* them; departmentRoles has a bucket for each department an effective
\* assignment is scoped to, holding the roles of those assignments, and none
\* for the global assignments.
C20_SnapshotCoversAllScopes ==
  ret.op = "getEffectivePermissions" =>
    LET E == EffectiveAssignments(ret.userId)
        snapshot == ret.result
    IN /\ NoDuplicates(snapshot.permissions) /\ NoDuplicates(snapshot.roles)
       /\ Elements(snapshot.roles) = {ur.roleId : ur \in E}
       /\ Elements(snapshot.permissions) = UnionOfGrants(E)
       /\ DOMAIN snapshot.departmentRoles = {ur.departmentId : ur \in E} \ {Null}
       /\ \A d \in DOMAIN snapshot.departmentRoles :
            /\ NoDuplicates(snapshot.departmentRoles[d])
            /\ Elements(snapshot.departmentRoles[d])
                 = {ur.roleId : ur \in {x \in E : x.departmentId = d}}

\* one role is held globally and another in a department: both are in the
\* flat list, the bucket of the department holds the second only
C20_Witness ==
  /\ ret.op = "getEffectivePermissions"
  /\ \E g, d \in EffectiveAssignments(ret.userId) :
       /\ g.departmentId = Null /\ d.departmentId \in Depts /\ g.roleId # d.roleId
       /\ Elements(ret.result.roles) = {g.roleId, d.roleId}
       /\ DOMAIN ret.result.departmentRoles = {d.departmentId}
       /\ ret.result.departmentRoles[d.departmentId] = <<d.roleId>>
       /\ Elements(ret.result.permissions) # {}

\* the step is a call of roleService.create or roleService.update that names
\* a parent
NamesParent(op) ==
  /\ ops' = ops + 1 /\ ret'.op = op
  /\ ret'.data.parentRoleId \notin {Undef, Null}

\* C21: through every sequence of calls of roleService no role is its own
\* parent; the parent named in a successful create or update was a role of
\* the store at the call; an update of a role that names the role itself or
\* a role that does not exist returns INVALID_PARENT_ROLE or
\* PARENT_ROLE_NOT_FOUND and leaves the store as it was.
C21_ParentIsAnotherExistingRole ==
  /\ [](\A r \in DOMAIN roles : roles[r].parentRoleId # r)
  /\ [][\A op \in {"roleService.create", "roleService.update"} :
          (NamesParent(op) /\ ret'.result = "success")
            => ret'.data.parentRoleId \in DOMAIN roles]_vars
  /\ [][(/\ NamesParent("roleService.update")
         /\ ret'.result \notin {"ROLE_NOT_FOUND", "SYSTEM_ROLE"}
         /\ \/ ret'.data.parentRoleId = ret'.id
            \/ ret'.data.parentRoleId \notin DOMAIN roles)
          => (/\ ret'.result \in {"INVALID_PARENT_ROLE", "PARENT_ROLE_NOT_FOUND"}
              /\ UNCHANGED store)]_vars

\* a role was created under a parent, and the update that names the role as
\* its own parent is answered by INVALID_PARENT_ROLE
C21_Witness ==
  /\ ret.op = "roleService.update" /\ ret.result = "INVALID_PARENT_ROLE"
  /\ ret.data.parentRoleId = ret.id
  /\ roles[ret.id].parentRoleId \in DOMAIN roles \ {ret.id}

\* C22: an allowed checkPermission result carries a matchedPermission that
\* is an active permission granted to an active role the user holds through
\* an effective assignment in the scope of the request (global, or scoped to
\* the targetDepartmentId of the request), on the requested resource, with
\* the requested action or MANAGE, and effectiveScope is its scope.
C22_AllowedOnlyThroughScopedPermission ==
  (IsCheck /\ ret.result.allowed) =>
    /\ Has("matchedPermission") /\ Has("effectiveScope")
    /\ LET m == ret.result.matchedPermission
           D == IF ret.request.targetDepartmentId = Undef THEN Null
                ELSE ret.request.targetDepartmentId
       IN /\ m.id \in UnionOfGrants(InForce(ret.request.userId, D))
          /\ m = permissions[m.id]
          /\ m.resource = ret.request.resource
          /\ m.action \in {ret.request.action, "MANAGE"}
          /\ ret.result.effectiveScope = m.scope

\* both calls have returned
Evaluated == calls[First].pc = "evaluated" /\ calls[Second].pc = "evaluated"
\* a permission of the set is an exact match of the evaluated request
ExactIn(S) ==
  {p \in S : isExact(permissions[p], calls[First].request.resource,
                     calls[First].request.action)}
\* the request names an owner who is not the user
NamesAnotherOwner ==
  /\ calls[First].request.targetOwnerId # Undef
  /\ calls[First].request.targetOwnerId # calls[First].request.userId

ScopeOf(result) ==
  IF "effectiveScope" \in DOMAIN result THEN <<result.effectiveScope>> ELSE <<>>

\* C28: two calls of checkPermission for one request on one set of
\* permissions, enumerated in any two orders, return the same allowed and the
\* same effectiveScope.
C28_OrderIndependent ==
  (Evaluated /\ calls[First].permissions = calls[Second].permissions) =>
    /\ calls[First].result.allowed = calls[Second].result.allowed
    /\ ScopeOf(calls[First].result) = ScopeOf(calls[Second].result)

\* the value checkPermissions returns for the pair when it is called for the
\* user on the store as it is
BatchValue(userId, pair) ==
  checkPermissions(getAllUserPermissions(userId, Undef), <<pair>>)[PairCode(pair)]
\* the results checkPermission can return for the request on the store as it is
PreciseResults(request) ==
  {checkPermission(request, permissionRows(idList)) :
     idList \in Orderings(getAllUserPermissions(request.userId, request.targetDepartmentId))}
\* neither a department nor an owner is named
Bare(request) == request.targetDepartmentId = Undef /\ request.targetOwnerId = Undef

\* C29: on one state of the store, a pair checkPermissions maps to false is
\* denied by checkPermission for every targetDepartmentId and targetOwnerId,
\* and with neither given the two return the same value.
C29_BatchNeverHidesPrecise ==
  /\ IsCheck =>
       LET batch == BatchValue(ret.request.userId, <<ret.request.resource, ret.request.action>>)
       IN /\ ~batch => ~ret.result.allowed
          /\ Bare(ret.request) => (batch = ret.result.allowed)
  /\ ret.op = "checkPermissions" =>
       \A i \in 1..Len(ret.checks) :
         \A request \in Requests :
           (/\ request.userId = ret.userId
            /\ <<request.resource, request.action>> = ret.checks[i]) =>
             \A precise \in PreciseResults(request) :
               /\ ~ret.result[PairCode(ret.checks[i])] => ~precise.allowed
               /\ Bare(request) => (ret.result[PairCode(ret.checks[i])] = precise.allowed)

\* the user holds a role in a department only; the batch maps one pair to
\* true and the other to false, as the check without department and owner
\* decides them
C29_Witness ==
  /\ ret.op = "checkPermissions"
  /\ EffectiveAssignments(ret.userId) # {}
  /\ \A ur \in EffectiveAssignments(ret.userId) : ur.departmentId \in Depts
  /\ \E i, j \in 1..Len(ret.checks) :
       /\ ret.result[PairCode(ret.checks[i])] = TRUE
       /\ ret.result[PairCode(ret.checks[j])] = FALSE

\* a call of a wrapper has returned
IsGuarded == ret.op \in {"withPermission", "withOwnershipPermission"}
\* checkPermission allows the request of the wrapper on the store as it is
CheckAllows == \E precise \in PreciseResults(ret.request) : precise.allowed

\* C23: a wrapper runs its handler only when checkPermission allows the
\* request of the call (for withOwnershipPermission with the resolved owner
\* as targetOwnerId); when the check denies, the handler is not invoked and
\* the result is success false with code PERMISSION_DENIED; when the handler
\* throws, the result is success false with the message, and nothing else.
C23_HandlerOnlyAfterAllowedCheck ==
  IsGuarded =>
    /\ ret.handler # "not invoked" <=> CheckAllows
    /\ (ret.op = "withPermission") => ret.request.targetOwnerId = Undef
    /\ ~CheckAllows =>
         /\ ret.result.success = FALSE
         /\ ret.result.code = "PERMISSION_DENIED"
    /\ ret.handler = "throws Error" =>
         ret.result = [success |-> FALSE, error |-> "message"]
    /\ ret.handler = "throws value" =>
         ret.result = [success |-> FALSE, error |-> "Unknown error"]
    /\ ret.handler = "returns" => ret.result.success = TRUE

\* the user may read the own record only: the wrapped action on the record
\* of another user is denied and the handler is not run
C23_Witness ==
  /\ ret.op = "withOwnershipPermission"
  /\ ret.request.targetOwnerId # ret.request.userId
  /\ ret.handler = "not invoked"
  /\ ret.result.code = "PERMISSION_DENIED"
  /\ \E p \in getAllUserPermissions(ret.request.userId, Undef) :
       Answers(p, ret.request.resource, ret.request.action)

\* the effective assignments of the role super-admin
SuperAdmins ==
  {ur \in userRoles :
     /\ ur.isActive /\ ~Expired(ur)
     /\ ur.roleId \in DOMAIN roles /\ roles[ur.roleId].code = "super-admin"}

\* C24: whatever calls of revokeRoleFromUser are made by authorised callers,
\* and however they interleave, an effective super-admin assignment exists
\* (the store starts with one).
C24_LastSuperAdminStays == SuperAdmins # {}

\* the departments reached from the set by following parentId up to n times
RECURSIVE Upwards(_, _)
Upwards(S, n) ==
  IF n = 0 THEN S
  ELSE Upwards(S \cup ({departments[d].parentId : d \in S \cap DOMAIN departments}
                         \ {Null}), n - 1)
\* the ancestors of a department
Ancestors(d) ==
  Upwards({departments[d].parentId} \ {Null}, Cardinality(DOMAIN departments))

\* C25: after every sequence of calls of departmentService.create and
\* departmentService.update no department is its own ancestor.
C25_NoCircularReference ==
  \A d \in DOMAIN departments : d \notin Ancestors(d)

\* the permissions the user holds through effective global assignments, on
\* the given table of assignments
HeldGlobally(rows, userId) ==
  UNION {GrantedActive(ur.roleId) :
           ur \in {x \in rows : /\ x.userId = userId /\ x.isActive
                                 /\ x.roleId \in DOMAIN roles /\ roles[x.roleId].isActive
                                 /\ ~Expired(x) /\ x.departmentId = Null}}

\* C30: a successful departmentService.delete leaves the permissions each
\* user holds through global assignments as they were, and leaves at most
\* one assignment row for each (user, role, department).
C30_DeleteNeverWidensAccess ==
  [][(/\ ops' = ops + 1
      /\ ret'.op = "departmentService.delete" /\ ret'.result = "success")
       => /\ \A u \in Users : HeldGlobally(userRoles', u) = HeldGlobally(userRoles, u)
          /\ \A x, y \in userRoles' :
               (/\ x.userId = y.userId /\ x.roleId = y.roleId
                /\ x.departmentId = y.departmentId) => x = y]_vars

\* C26: handleLogin answers USER_INACTIVE to a user whose status is not
\* ACTIVE and leaves the row of the user (lastLoginAt included) as it was; the
\* token of a sign-in never carries the dbUserId of a user whose status is
\* not ACTIVE.
C26_InactiveLoginBlocked ==
  /\ ret.op = "handleLogin" =>
       \A user \in ret.user :
         user.status # "ACTIVE" => (ret.result = "USER_INACTIVE" /\ users[user.id] = user)
  /\ ret.op = "jwt" =>
       \A u \in DOMAIN users :
         ret.token.dbUserId = <<u>> => users[u].status = "ACTIVE"

====
